---------------------------- MODULE Spec2Model ----------------------------
(***************************************************************************)
(* huelib: mutation encoding (Adjust -> wire keys), response decoding     *)
(* (Response / Error / Modified; Creator / Modifier / Scanner execute and  *)
(* the Bridge calls), the registration handshake, the constructors of     *)
(* Color, the requests and schedule Commands made of a payload, and the    *)
(* modifiers of the builder API (light.rs, group.rs, scene.rs).            *)
(*                                                                         *)
(* JSON values are tagged records [t, v]; v is always a sequence so that   *)
(* two JSON values can be compared whatever their kinds.  An object is the *)
(* sequence of its <<key, value>> entries in iteration order, keys         *)
(* pairwise distinct.                                                      *)
(***************************************************************************)
EXTENDS Integers, Sequences, FiniteSets, TLC

VARIABLES
    call,       \* response side: the operation that was called last
    args,       \* response side: the arguments it was called with
    raw,        \* response side: what the HTTP exchange delivered
    result,     \* response side: what the call returned
    requests,   \* response side: the HTTP requests the call has issued
    kind,       \* encoding side: which payload type is being built
    modifier,   \* encoding side: the payload value (its optional fields)
    payload,    \* encoding side: the last serialization, None before one
    setter,     \* encoding side: the setter that was called last
    issued,     \* encoding side: the request or the Command made of the payload
    color_call, \* colour side: the constructor that was called last
    color_args, \* colour side: the arguments it was called with
    color,      \* colour side: what it returned
    builder_kind,    \* builder side: which modifier type is being chained
    builder,         \* builder side: the modifier value
    builder_call,    \* builder side: the method that was called last
    builder_payload  \* builder side: the last serialization, None before one

vars ==
    <<call, args, raw, result, requests, kind, modifier, payload, setter,
      issued,
      color_call, color_args, color,
      builder_kind, builder, builder_call, builder_payload>>
respVars == <<call, args, raw, result, requests>>
serVars == <<kind, modifier, payload, setter, issued>>
colorVars == <<color_call, color_args, color>>
builderVars == <<builder_kind, builder, builder_call, builder_payload>>

-----------------------------------------------------------------------------
(* Option, Result *)

None == <<>>
Some(x) == <<x>>
IsSome(o) == o # <<>>
Unwrap(o) == o[1]

Ok(x) == [ok |-> TRUE, val |-> x, err |-> <<>>]
Err(e) == [ok |-> FALSE, val |-> <<>>, err |-> <<e>>]

(* crate::Error, the variants the calls modelled here produce *)
ParseHttpResponse == [kind |-> "ParseHttpResponse", error |-> <<>>]
ParseJson == [kind |-> "ParseJson", error |-> <<>>]
GetCreatedId == [kind |-> "GetCreatedId", error |-> <<>>]
ErrorResponse(e) == [kind |-> "Response", error |-> <<e>>]

-----------------------------------------------------------------------------
(* JSON values *)

JNull == [t |-> "null", v |-> <<>>]
JNum(n) == [t |-> "num", v |-> <<n>>]
JStr(s) == [t |-> "str", v |-> <<s>>]
JBool(b) == [t |-> "bool", v |-> <<b>>]
JArr(s) == [t |-> "arr", v |-> s]
JObj(s) == [t |-> "obj", v |-> s]

Keys(o) == {o.v[i][1] : i \in 1..Len(o.v)}
HasKey(o, k) == \E i \in 1..Len(o.v) : o.v[i][1] = k
Get(o, k) == o.v[CHOOSE i \in 1..Len(o.v) : o.v[i][1] = k][2]

-----------------------------------------------------------------------------
(* response.rs *)

U16Max == 65535

ErrorKindTable ==
    { <<1, "UnauthorizedUser">>, <<2, "BodyContainsInvalidJson">>,
      <<3, "ResourceNotAvailable">>, <<4, "MethodNotAvailableForResource">>,
      <<5, "MissingParametersInBody">>, <<6, "ParameterNotAvailable">>,
      <<7, "InvalidValueForParameter">>, <<8, "ParameterIsNotModifiable">>,
      <<11, "TooManyItemsInList">>, <<12, "PortalConnectionRequired">>,
      <<101, "LinkButtonNotPressed">>, <<110, "DHCPCannotBeDisabled">>,
      <<111, "InvalidUpdateState">>, <<201, "DeviceIsSetToOff">>,
      <<203, "CommissionableLightListIsFull">>, <<301, "GroupTableIsFull">>,
      <<305, "UpdateOrDeleteGroupOfThisTypeNotAllowed">>,
      <<306, "LightAlreadyUsedInAnotherRoom">>,
      <<402, "SceneCouldNotBeCreatedBufferIsFull">>,
      <<403, "SceneCouldNotBeRemoved">>,
      <<404, "SceneCouldNotBeCreatedGroupIsEmpty">>,
      <<501, "NotAllowedToCreateSensorType">>, <<502, "SensorListIsFull">>,
      <<503, "CommissionableSensorListIsFull">>, <<601, "RuleEngineFull">>,
      <<607, "ConditionError">>, <<608, "ActionError">>,
      <<609, "UnableToActivate">>, <<701, "ScheduleListIsFull">>,
      <<702, "ScheduleTimezoneNotValid">>,
      <<703, "ScheduleCannotSetTimeAndLocalTime">>,
      <<704, "CannotCreateSchedule">>,
      <<705, "CannotEnableScheduleTimeInPast">>, <<706, "CommandError">>,
      <<801, "SourceModelInvalid">>, <<802, "SourceFactoryNew">>,
      <<803, "InvalidState">>, <<901, "InternalError">>,
      \* the last variant carries no explicit discriminant: 901 + 1
      <<902, "UnkownError">> }

(* String::deserialize *)
DeString(j) == IF j.t = "str" THEN Ok(j.v[1]) ELSE Err(ParseJson)

(* u16::deserialize *)
DeU16(j) ==
    IF j.t = "num" /\ j.v[1] >= 0 /\ j.v[1] <= U16Max
    THEN Ok(j.v[1]) ELSE Err(ParseJson)

(* Deserialize_repr for ErrorKind: the discriminant is read as the repr  *)
(* type and matched against the variants; no variant is marked as the    *)
(* fallback, so a discriminant outside the table is an error.            *)
DeErrorKind(j) ==
    LET n == DeU16(j) IN
    IF ~n.ok THEN n
    ELSE IF \E p \in ErrorKindTable : p[1] = n.val
         THEN Ok((CHOOSE p \in ErrorKindTable : p[1] = n.val)[2])
         ELSE Err(ParseJson)

(* derive(Deserialize) for struct Error: from a map (the three fields are *)
(* required, other keys are ignored) or from a sequence of exactly three. *)
DeErrorFields(k, a, d) ==
    LET kk == DeErrorKind(k)
        aa == DeString(a)
        dd == DeString(d)
    IN IF kk.ok /\ aa.ok /\ dd.ok
       THEN Ok([kind |-> kk.val, address |-> aa.val, description |-> dd.val])
       ELSE Err(ParseJson)

DeError(j) ==
    CASE j.t = "obj" ->
            IF HasKey(j, "type") /\ HasKey(j, "address") /\ HasKey(j, "description")
            THEN DeErrorFields(Get(j, "type"), Get(j, "address"), Get(j, "description"))
            ELSE Err(ParseJson)
      [] j.t = "arr" ->
            IF Len(j.v) = 3 THEN DeErrorFields(j.v[1], j.v[2], j.v[3])
            ELSE Err(ParseJson)
      [] OTHER -> Err(ParseJson)

Success(x) == [tag |-> "Success", v |-> x]
Error(e) == [tag |-> "Error", v |-> e]

(* Response::into_result *)
into_result(r) == IF r.tag = "Success" THEN Ok(r.v) ELSE Err(r.v)

(* ModifiedVisitor::visit_map: every entry overwrites address and value; *)
(* what is left after the loop is the last entry.                        *)
RECURSIVE visit_map(_, _, _)
visit_map(entries, address, value) ==
    IF entries = <<>>
    THEN IF ~IsSome(address) THEN Err(ParseJson)
         ELSE IF ~IsSome(value) THEN Err(ParseJson)
         ELSE Ok([address |-> Unwrap(address), value |-> Unwrap(value)])
    ELSE visit_map(Tail(entries), Some(Head(entries)[1]), Some(Head(entries)[2]))

(* Modified read as the flat value, the inner map not unwrapped *)
DeModified_Flat(j) == Ok([address |-> "success", value |-> j])

(* impl Deserialize for Modified: deserialize_struct hands a map to      *)
(* visit_map; the visitor has no visit_seq, so a sequence is rejected.   *)
DeModified(j) ==
    IF j.t = "obj" THEN visit_map(j.v, None, None) ELSE Err(ParseJson)

(* Value::deserialize *)
DeJsonValue(j) == Ok(j)

(* derive(Deserialize) for struct CreationInfo { id: String } *)
DeCreationInfo(j) ==
    CASE j.t = "obj" ->
            IF HasKey(j, "id") THEN DeString(Get(j, "id")) ELSE Err(ParseJson)
      [] j.t = "arr" ->
            IF Len(j.v) = 1 THEN DeString(j.v[1]) ELSE Err(ParseJson)
      [] OTHER -> Err(ParseJson)

(* HashMap<String, String>::deserialize: a map all of whose values are   *)
(* strings; it is kept as the JSON object it was read from.              *)
DeHashMapStringString(j) ==
    IF j.t = "obj" /\ \A i \in 1..Len(j.v) : j.v[i][2].t = "str"
    THEN Ok(j) ELSE Err(ParseJson)

(* bridge/register.rs and bridge.rs: registration.  A string is the     *)
(* sequence of its characters; format! puts the argument into the        *)
(* literal text as it is.                                                *)
DevicetypeNewOpen ==
    <<"{", "\"", "d", "e", "v", "i", "c", "e", "t", "y", "p", "e", "\"",
      ":", "\"">>
DevicetypeNewClose ==
    <<"\"", "}">>
ClientkeyNewClose ==
    <<"\"", ",", "\"", "g", "e", "n", "e", "r", "a", "t", "e", "c", "l",
      "i", "e", "n", "t", "k", "e", "y", "\"", ":", "t", "r", "u", "e",
      "}">>
DevicetypeOldOpen ==
    <<"{", "\"", "d", "e", "v", "i", "c", "e", "t", "y", "p", "e", "\"",
      ":", " ", "\"">>
DevicetypeOldClose ==
    <<"\"", "}">>
ClientkeyOldClose ==
    <<"\"", ",", " ", "\"", "g", "e", "n", "e", "r", "a", "t", "e", "c",
      "l", "i", "e", "n", "t", "k", "e", "y", "\"", ":", " ", "t", "r",
      "u", "e", "}">>

(* register.rs: format!("{{\"devicetype\":\"{}\"}}", devicetype) *)
register_user_body(devicetype) ==
    DevicetypeNewOpen \o devicetype \o DevicetypeNewClose

(* register.rs: format!("{{\"devicetype\":\"{}\",\"generateclientkey\":true}}", devicetype) *)
register_user_with_clientkey_body(devicetype) ==
    DevicetypeNewOpen \o devicetype \o ClientkeyNewClose

(* bridge.rs: the body of register_user(ip_address, devicetype, generate_clientkey) *)
bridge_register_user_body(devicetype, generate_clientkey) ==
    IF generate_clientkey
    THEN DevicetypeOldOpen \o devicetype \o ClientkeyOldClose
    ELSE DevicetypeOldOpen \o devicetype \o DevicetypeOldClose

GetUsername == [kind |-> "GetUsername", error |-> <<>>]

(* register.rs: struct User { username: String } *)
DeRegisterUser(j) ==
    CASE j.t = "obj" ->
            IF HasKey(j, "username") /\ Get(j, "username").t = "str"
            THEN Ok([username |-> Get(j, "username").v[1]])
            ELSE Err(ParseJson)
      [] j.t = "arr" ->
            IF Len(j.v) = 1 /\ j.v[1].t = "str"
            THEN Ok([username |-> j.v[1].v[1]])
            ELSE Err(ParseJson)
      [] OTHER -> Err(ParseJson)

(* register.rs: struct User { username: String, clientkey: String } *)
DeRegisterUserWithClientkey(j) ==
    CASE j.t = "obj" ->
            IF /\ HasKey(j, "username") /\ Get(j, "username").t = "str"
               /\ HasKey(j, "clientkey") /\ Get(j, "clientkey").t = "str"
            THEN Ok([username |-> Get(j, "username").v[1],
                     clientkey |-> Get(j, "clientkey").v[1]])
            ELSE Err(ParseJson)
      [] j.t = "arr" ->
            IF Len(j.v) = 2 /\ j.v[1].t = "str" /\ j.v[2].t = "str"
            THEN Ok([username |-> j.v[1].v[1], clientkey |-> j.v[2].v[1]])
            ELSE Err(ParseJson)
      [] OTHER -> Err(ParseJson)

(* Option<String>::deserialize, called on a value that is there *)
DeOptionString(j) ==
    CASE j.t = "null" -> Ok(None)
      [] j.t = "str" -> Ok(Some(j.v[1]))
      [] OTHER -> Err(ParseJson)

(* bridge.rs: struct User { name (renamed username): String,             *)
(* clientkey: Option<String> }; a missing Option field is None           *)
DeBridgeUser(j) ==
    CASE j.t = "obj" ->
            IF /\ HasKey(j, "username") /\ Get(j, "username").t = "str"
               /\ HasKey(j, "clientkey") => DeOptionString(Get(j, "clientkey")).ok
            THEN Ok([name |-> Get(j, "username").v[1],
                     clientkey |-> IF HasKey(j, "clientkey")
                                   THEN DeOptionString(Get(j, "clientkey")).val
                                   ELSE None])
            ELSE Err(ParseJson)
      [] j.t = "arr" ->
            IF Len(j.v) = 2 /\ j.v[1].t = "str" /\ DeOptionString(j.v[2]).ok
            THEN Ok([name |-> j.v[1].v[1], clientkey |-> DeOptionString(j.v[2]).val])
            ELSE Err(ParseJson)
      [] OTHER -> Err(ParseJson)

(* T::deserialize for the types T that Response<T> is used with *)
DeT(T, j) ==
    CASE T = "Modified" -> DeModified(j)
      [] T = "CreationInfo" -> DeCreationInfo(j)
      [] T = "HashMap<String, String>" -> DeHashMapStringString(j)
      [] T = "JsonValue" -> DeJsonValue(j)
      [] T = "register_user::User" -> DeRegisterUser(j)
      [] T = "register_user_with_clientkey::User" -> DeRegisterUserWithClientkey(j)
      [] T = "bridge::User" -> DeBridgeUser(j)

(* Response<T> read from the first entry of a map of any size *)
DeResponse_FirstKey(T, j) ==
    IF j.t = "obj" /\ Len(j.v) >= 1
    THEN LET variant == j.v[1][1]
             value == j.v[1][2]
         IN CASE variant = "success" ->
                    LET x == DeT(T, value) IN
                    IF x.ok THEN Ok(Success(x.val)) ELSE x
              [] variant = "error" ->
                    LET e == DeError(value) IN
                    IF e.ok THEN Ok(Error(e.val)) ELSE e
              [] OTHER -> Err(ParseJson)
    ELSE Err(ParseJson)

(* derive(Deserialize), rename_all = "lowercase", for enum Response<T>:  *)
(* an externally tagged enum is read from a map with a single key, the   *)
(* key names the variant; a bare string names a variant without a value, *)
(* which no variant of Response accepts.                                 *)
DeResponse(T, j) ==
    CASE j.t = "obj" ->
            IF Len(j.v) # 1 THEN Err(ParseJson)
            ELSE LET variant == j.v[1][1]
                     value == j.v[1][2]
                 IN CASE variant = "success" ->
                            LET x == DeT(T, value) IN
                            IF x.ok THEN Ok(Success(x.val)) ELSE x
                      [] variant = "error" ->
                            LET e == DeError(value) IN
                            IF e.ok THEN Ok(Error(e.val)) ELSE e
                      [] OTHER -> Err(ParseJson)
      [] OTHER -> Err(ParseJson)

(* a sequence read with the elements that do not decode left out *)
DeVecResponse_Skipping(T, j) ==
    IF j.t # "arr" THEN Err(ParseJson)
    ELSE LET decoded == [i \in 1..Len(j.v) |-> DeResponse(T, j.v[i])]
             kept == SelectSeq(decoded, LAMBDA d : d.ok)
         IN Ok([i \in 1..Len(kept) |-> kept[i].val])

(* Vec<Response<T>>::deserialize: an array all of whose elements decode *)
DeVecResponse(T, j) ==
    IF j.t # "arr" THEN Err(ParseJson)
    ELSE IF \E i \in 1..Len(j.v) : ~DeResponse(T, j.v[i]).ok THEN Err(ParseJson)
    ELSE Ok([i \in 1..Len(j.v) |-> DeResponse(T, j.v[i]).val])

-----------------------------------------------------------------------------
(* resource/mod.rs and bridge.rs: the calls *)

(* RequestType / RequestMethod, and the one ureq request a call sends:  *)
(* ureq::put(&url).send_json(v), ureq::post(&url).send_json(v),          *)
(* ureq::get(&url).call(), ureq::delete(&url).call().  The requests of a *)
(* call are held as the sequence of what was sent.  The JSON body of a   *)
(* payload is not looked at on this side.                                *)
RequestMethods == {"Put", "Post", "Get", "Delete"}
NoBody == <<>>

(* the request sent once more when the reply is not there *)
send_Twice(method, body) ==
    <<[method |-> method, body |-> body], [method |-> method, body |-> body]>>

send(method, body) == <<[method |-> method, body |-> body]>>

(* what the HTTP exchange can deliver: no JSON at all, or a JSON value *)
TransportFailure == [t |-> "io_error", v |-> <<>>]

(* Bridge::api_request, called for a Vec<Response<T>>:                   *)
(* response.into_json()? then serde_json::from_value                    *)
api_request(T, r) ==
    IF r = TransportFailure THEN Err(ParseHttpResponse) ELSE DeVecResponse(T, r)

(* Modifier::execute with the loop of Scanner::execute: the first Error  *)
(* entry becomes the error of the call                                   *)
ModifierExecuteResult_Collapsing(r) ==
    LET response == api_request("Modified", r) IN
    IF ~response.ok THEN response
    ELSE IF \E i \in 1..Len(response.val) : response.val[i].tag = "Error"
         THEN LET i == CHOOSE j \in 1..Len(response.val) :
                        /\ response.val[j].tag = "Error"
                        /\ \A h \in 1..(j - 1) : response.val[h].tag # "Error"
              IN Err(ErrorResponse(response.val[i].v))
         ELSE response

(* Modifier::execute *)
ModifierExecuteResult(r) == api_request("Modified", r)

(* Bridge::set_light_state and the other Bridge::set_* *)
set_light_state(r) == api_request("Modified", r)

(* Creator::execute: response.pop() is the last element *)
CreatorExecuteResult(r) ==
    LET response == api_request("CreationInfo", r) IN
    IF ~response.ok THEN response
    ELSE IF Len(response.val) = 0 THEN Err(GetCreatedId)
    ELSE LET v == into_result(response.val[Len(response.val)]) IN
         IF v.ok THEN Ok(v.val) ELSE Err(ErrorResponse(v.err[1]))

(* Bridge::create_group and the other Bridge::create_* *)
create_group(r) ==
    LET response == api_request("HashMap<String, String>", r) IN
    IF ~response.ok THEN response
    ELSE IF Len(response.val) = 0 THEN Err(GetCreatedId)
    ELSE LET v == into_result(response.val[Len(response.val)]) IN
         IF ~v.ok THEN Err(ErrorResponse(v.err[1]))
         ELSE IF HasKey(v.val, "id") THEN Ok(Get(v.val, "id").v[1])
         ELSE Err(GetCreatedId)

(* the unit value () *)
Unit == <<>>

(* for response in responses { response.into_result()?; } Ok(()) with    *)
(* the responses taken from position i on: the first Error entry ends    *)
(* the loop and is returned                                              *)
RECURSIVE into_result_loop(_, _)
into_result_loop(responses, i) ==
    IF i > Len(responses) THEN Ok(Unit)
    ELSE LET v == into_result(responses[i]) IN
         IF ~v.ok THEN Err(ErrorResponse(v.err[1]))
         ELSE into_result_loop(responses, i + 1)

(* Scanner::execute deciding on the last entry alone, as the creators do *)
ScannerExecuteResult_Last(r) ==
    LET responses == api_request("JsonValue", r) IN
    IF ~responses.ok THEN responses
    ELSE IF Len(responses.val) = 0 THEN Ok(Unit)
    ELSE LET v == into_result(responses.val[Len(responses.val)]) IN
         IF v.ok THEN Ok(Unit) ELSE Err(ErrorResponse(v.err[1]))

(* Scanner::execute *)
ScannerExecuteResult(r) ==
    LET responses == api_request("JsonValue", r) IN
    IF ~responses.ok THEN responses
    ELSE into_result_loop(responses.val, 1)

(* Bridge::search_new_lights and Bridge::search_new_sensors *)
search_new_lights(r) ==
    LET response == api_request("JsonValue", r) IN
    IF ~response.ok THEN response
    ELSE into_result_loop(response.val, 1)

(* Bridge::delete_light and the other Bridge::delete_* *)
delete_light(r) ==
    LET response == api_request("JsonValue", r) IN
    IF ~response.ok THEN response
    ELSE into_result_loop(response.val, 1)

(* Bridge::api_request called for a JsonValue: the body as it came *)
api_request_value(r) ==
    IF r = TransportFailure THEN Err(ParseHttpResponse) ELSE Ok(r)

(* derive(Deserialize) for resource::Light read from a map: id is        *)
(* skipped, the fields that are not an Option are required, unknown keys *)
(* are ignored.  The nested structs (state, swupdate, config,            *)
(* capabilities) are held as the JSON objects they are read from.  Read  *)
(* from a sequence the fields are taken in declaration order, and the    *)
(* sequence must supply the required ones.                               *)
LightStringFields == <<"name", "type", "modelid", "uniqueid", "swversion">>
LightStructFields == <<"state", "swupdate", "config", "capabilities">>
LightOptionFields == <<"productid", "productname", "manufacturername">>
LightFieldOrder ==
    <<"name", "type", "state", "modelid", "uniqueid", "productid",
      "productname", "manufacturername", "swversion", "swupdate", "config",
      "capabilities">>

InSeq(x, q) == \E i \in 1..Len(q) : q[i] = x

DeLightField(f, j) ==
    IF InSeq(f, LightStringFields) THEN j.t = "str"
    ELSE IF InSeq(f, LightStructFields) THEN j.t = "obj"
    ELSE j.t \in {"str", "null"}

DeLight(j) ==
    CASE j.t = "obj" ->
            IF /\ \A i \in 1..Len(LightStringFields) : HasKey(j, LightStringFields[i])
               /\ \A i \in 1..Len(LightStructFields) : HasKey(j, LightStructFields[i])
               /\ \A i \in 1..Len(j.v) :
                    InSeq(j.v[i][1], LightFieldOrder) => DeLightField(j.v[i][1], j.v[i][2])
            THEN Ok([id |-> "", name |-> Get(j, "name").v[1], fields |-> j])
            ELSE Err(ParseJson)
      [] j.t = "arr" ->
            IF /\ Len(j.v) = Len(LightFieldOrder)
               /\ \A i \in 1..Len(j.v) : DeLightField(LightFieldOrder[i], j.v[i])
            THEN Ok([id |-> "", name |-> j.v[1].v[1], fields |-> j])
            ELSE Err(ParseJson)
      [] OTHER -> Err(ParseJson)

(* Light::with_id *)
with_id(light, id) == [light EXCEPT !.id = id]

(* HashMap<String, Light>::deserialize: a map all of whose values are    *)
(* lights                                                                *)
DeHashMapStringLight(j) ==
    IF j.t = "obj" /\ \A i \in 1..Len(j.v) : DeLight(j.v[i][2]).ok
    THEN Ok({<<j.v[i][1], DeLight(j.v[i][2]).val>> : i \in 1..Len(j.v)})
    ELSE Err(ParseJson)

(* T::deserialize for the types T that parse_response is used with *)
DeResource(T, j) ==
    CASE T = "Light" -> DeLight(j)
      [] T = "HashMap<String, Light>" -> DeHashMapStringLight(j)

(* parse_response: when the value reads as Vec<Response<JsonValue>>, the *)
(* entry that v.pop() hands out, the last one, goes through              *)
(* into_result()?; in every other case the value is read as T            *)
parse_response(T, response) ==
    LET v == DeVecResponse("JsonValue", response) IN
    IF v.ok /\ Len(v.val) > 0 /\ ~into_result(v.val[Len(v.val)]).ok
    THEN Err(ErrorResponse(into_result(v.val[Len(v.val)]).err[1]))
    ELSE DeResource(T, response)

(* Bridge::get_light *)
get_light(id, r) ==
    LET response == api_request_value(r) IN
    IF ~response.ok THEN response
    ELSE LET light == parse_response("Light", response.val) IN
         IF ~light.ok THEN light ELSE Ok(with_id(light.val, id))

(* Bridge::get_all_lights; the lights are pushed in the iteration order  *)
(* of the HashMap, which is not determined: the Vec is held as the set   *)
(* of its elements                                                       *)
get_all_lights(r) ==
    LET response == api_request_value(r) IN
    IF ~response.ok THEN response
    ELSE LET map == parse_response("HashMap<String, Light>", response.val) IN
         IF ~map.ok THEN map
         ELSE Ok({with_id(p[2], p[1]) : p \in map.val})

(* register.rs: register_user.  ureq's into_json reads the body into     *)
(* the target type and reports a body that does not fit as an io::Error, *)
(* which From<io::Error> turns into Error::ParseHttpResponse.            *)
register_user(r) ==
    LET responses == api_request("register_user::User", r) IN
    IF ~responses.ok THEN Err(ParseHttpResponse)
    ELSE IF Len(responses.val) = 0 THEN Err(GetUsername)
    ELSE LET v == into_result(responses.val[Len(responses.val)]) IN
         IF v.ok THEN Ok(v.val.username) ELSE Err(ErrorResponse(v.err[1]))

(* register.rs: register_user_with_clientkey *)
register_user_with_clientkey(r) ==
    LET responses == api_request("register_user_with_clientkey::User", r) IN
    IF ~responses.ok THEN Err(ParseHttpResponse)
    ELSE IF Len(responses.val) = 0 THEN Err(GetUsername)
    ELSE LET v == into_result(responses.val[Len(responses.val)]) IN
         IF v.ok THEN Ok(<<v.val.username, v.val.clientkey>>)
         ELSE Err(ErrorResponse(v.err[1]))

(* register_user deciding on the first entry of the reply *)
bridge_register_user_First(r) ==
    LET responses == api_request("bridge::User", r) IN
    IF ~responses.ok THEN responses
    ELSE IF Len(responses.val) = 0 THEN Err(GetUsername)
    ELSE LET v == into_result(responses.val[1]) IN
         IF v.ok THEN Ok(v.val) ELSE Err(ErrorResponse(v.err[1]))

(* bridge.rs: register_user(ip_address, devicetype, generate_clientkey): *)
(* serde_json::from_value(http_response.into_json()?)?, responses.pop()  *)
bridge_register_user(r) ==
    LET responses == api_request("bridge::User", r) IN
    IF ~responses.ok THEN responses
    ELSE IF Len(responses.val) = 0 THEN Err(GetUsername)
    ELSE LET v == into_result(responses.val[Len(responses.val)]) IN
         IF v.ok THEN Ok(v.val) ELSE Err(ErrorResponse(v.err[1]))

-----------------------------------------------------------------------------
(* the replies a bridge is made to give *)

MaxResp == 2

Addresses == {"/lights/1/state/bri", "id"}
JsonLeaves == {JNull, JNum(200), JStr("5")}
Entries == {<<a, x>> : a \in Addresses, x \in JsonLeaves}

InnerObjects ==
    {JObj(<<>>)} \cup {JObj(<<e>>) : e \in Entries}
    \cup {JObj(<<p[1], p[2]>>) : p \in {q \in Entries \X Entries : q[1][1] # q[2][1]}}

WireCodes == {1, 101, 902, 999}

ErrorObject(c) ==
    JObj(<< <<"type", JNum(c)>>, <<"address", JStr("/lights/1")>>,
            <<"description", JStr("link button not pressed")>> >>)

ErrorValues ==
    {ErrorObject(c) : c \in WireCodes}
    \cup { JObj(<< <<"type", JNum(1)>>, <<"address", JStr("/lights/1")>> >>),
           JArr(<<JNum(1), JStr("/lights/1"), JStr("link button not pressed")>>) }

SuccessValues == InnerObjects \cup {JStr("5")}

Elements ==
    {JObj(<< <<"success", x>> >>) : x \in SuccessValues}
    \cup {JObj(<< <<"error", e>> >>) : e \in ErrorValues}
    \cup { JObj(<<>>),
           JObj(<< <<"Success", JObj(<< <<"id", JStr("5")>> >>)>> >>),
           JObj(<< <<"success", JObj(<< <<"id", JStr("5")>> >>)>>,
                   <<"error", ErrorObject(1)>> >>),
           JStr("success") }

BSeq(S, n) == UNION {[1..k -> S] : k \in 0..n}

Replies ==
    {TransportFailure, JNull, JObj(<< <<"error", ErrorObject(1)>> >>)}
    \cup {JArr(s) : s \in BSeq(Elements, MaxResp)}

(* what a bridge answers to a GET: a resource, a map of resources, or a  *)
(* sequence of envelopes                                                 *)
LightObject(name) ==
    JObj(<< <<"state", JObj(<< <<"on", JBool(TRUE)>> >>)>>,
            <<"swupdate", JObj(<<>>)>>,
            <<"type", JStr("Dimmable light")>>,
            <<"name", JStr(name)>>,
            <<"modelid", JStr("LWB010")>>,
            <<"manufacturername", JStr("Philips")>>,
            <<"capabilities", JObj(<<>>)>>,
            <<"config", JObj(<<>>)>>,
            <<"uniqueid", JStr("00:17:88:01:00:00:00:01-0b")>>,
            <<"swversion", JStr("1.46.13")>> >>)

LightNames == {"Hue lamp 1", "Hue lamp 2"}
LightIds == {"1", "2"}

ResourceValues ==
    {LightObject(n) : n \in LightNames}
    \cup {JObj(<< <<"name", JStr("Hue lamp 1")>> >>), JObj(<<>>)}
    \cup {JObj(<< <<i, LightObject(n)>> >>) : i \in LightIds, n \in LightNames}
    \cup {JObj(<< <<"1", LightObject("Hue lamp 1")>>, <<"2", LightObject("Hue lamp 2")>> >>),
          JObj(<< <<"1", LightObject("Hue lamp 1")>>, <<"2", JNull>> >>)}

GetReplies == Replies \cup ResourceValues

(* what a bridge answers to a registration *)
Usernames == {"abc"}
Clientkeys == {"0123456789abcdef0123456789abcdef"}

RegisterSuccessValues ==
    {JObj(<< <<"username", JStr(u)>> >>) : u \in Usernames}
    \cup {JObj(<< <<"username", JStr(u)>>, <<"clientkey", JStr(k)>> >>) :
            u \in Usernames, k \in Clientkeys}
    \cup {JObj(<< <<"clientkey", JStr(k)>> >>) : k \in Clientkeys}
    \cup {JObj(<< <<"username", JStr(u)>>, <<"clientkey", JNull>> >>) : u \in Usernames}

RegisterElements ==
    {JObj(<< <<"success", x>> >>) : x \in RegisterSuccessValues}
    \cup {JObj(<< <<"error", ErrorObject(c)>> >>) : c \in {1, 101}}
    \cup {JObj(<<>>)}

RegisterReplies ==
    {TransportFailure, JNull} \cup {JArr(s) : s \in BSeq(RegisterElements, MaxResp)}

(* the device identifiers a caller passes *)
MaxDevicetype == 2
DevicetypeChars == {"a", "\"", "\\"}
(* a devicetype that closes the string and goes on with members of its own *)
InjectingDevicetype ==
    <<"a", "\"", ",", "\"", "g", "e", "n", "e", "r", "a", "t", "e", "c", "l", "i",
      "e", "n", "t", "k", "e", "y", "\"", ":", "t", "r", "u", "e", ",", "\"", "x",
      "\"", ":", "\"">>
Devicetypes == BSeq(DevicetypeChars, MaxDevicetype) \cup {InjectingDevicetype}

-----------------------------------------------------------------------------
(* resource/mod.rs, util.rs, resource/light.rs, resource/group.rs: payloads *)

U8Max == 255

(* enum Adjust<T> *)
Override(x) == [variant |-> "Override", v |-> x]
Increment(x) == [variant |-> "Increment", v |-> x]
Decrement(x) == [variant |-> "Decrement", v |-> x]

(* `v as i16` and `-(x)` on i16: two's complement, 16 bits wide.  The   *)
(* i32 casts are applied to u16 values only: every u16 is an i32, and   *)
(* the negation of an i32 wraps at i32::MIN only, which no u16 yields.  *)
I16Modulus == 65536
WrapI16(x) == ((x + I16Modulus \div 2) % I16Modulus) - I16Modulus \div 2
AsSigned(x, bits) == IF bits = 16 THEN WrapI16(x) ELSE x
NegSigned(x, bits) == IF bits = 16 THEN WrapI16(0 - x) ELSE 0 - x

(* to_override without the match on the variant *)
to_override_AnyVariant(o) == IF IsSome(o) THEN Some(Unwrap(o).v) ELSE None

(* custom_serialize!(@VALUE $v, to_override) *)
to_override(o) ==
    IF IsSome(o) /\ Unwrap(o).variant = "Override" THEN Some(Unwrap(o).v) ELSE None

(* to_increment with the Decrement arm not negated *)
to_increment_NoNegate(o, bits) ==
    IF ~IsSome(o) THEN None
    ELSE IF Unwrap(o).variant \in {"Increment", "Decrement"}
         THEN Some(AsSigned(Unwrap(o).v, bits))
         ELSE None

(* custom_serialize!(@VALUE $v, to_increment, $t) *)
to_increment(o, bits) ==
    IF ~IsSome(o) THEN None
    ELSE CASE Unwrap(o).variant = "Increment" -> Some(AsSigned(Unwrap(o).v, bits))
           [] Unwrap(o).variant = "Decrement" ->
                Some(NegSigned(AsSigned(Unwrap(o).v, bits), bits))
           [] OTHER -> None

(* custom_serialize!(@VALUE $v, to_increment_tuple, f32); the f32 values  *)
(* of the model are integers, `as f32` and negation are exact on them     *)
to_increment_tuple(o) ==
    IF ~IsSome(o) THEN None
    ELSE CASE Unwrap(o).variant = "Increment" -> Some(<<Unwrap(o).v[1], Unwrap(o).v[2]>>)
           [] Unwrap(o).variant = "Decrement" ->
                Some(<<0 - Unwrap(o).v[1], 0 - Unwrap(o).v[2]>>)
           [] OTHER -> None

(* Serialize of the field types *)
OptBool(o) == IF IsSome(o) THEN Some(JBool(Unwrap(o))) ELSE None
OptNum(o) == IF IsSome(o) THEN Some(JNum(Unwrap(o))) ELSE None
OptStr(o) == IF IsSome(o) THEN Some(JStr(Unwrap(o))) ELSE None
OptPair(o) ==
    IF IsSome(o) THEN Some(JArr(<<JNum(Unwrap(o)[1]), JNum(Unwrap(o)[2])>>)) ELSE None
OptStrings(o) ==
    IF IsSome(o) THEN Some(JArr([i \in 1..Len(Unwrap(o)) |-> JStr(Unwrap(o)[i])]))
    ELSE None

RECURSIVE EmitSome(_)
EmitSome(fields) ==
    IF fields = <<>> THEN <<>>
    ELSE IF IsSome(Head(fields)[2])
         THEN <<<<Head(fields)[1], Unwrap(Head(fields)[2])>>>> \o EmitSome(Tail(fields))
         ELSE EmitSome(Tail(fields))

(* custom_serialize! with a serialize_field for every value, Some or None *)
custom_serialize_Nulls(fields) ==
    [len |-> Len(fields),
     obj |-> JObj([i \in 1..Len(fields) |->
                <<fields[i][1],
                  IF IsSome(fields[i][2]) THEN Unwrap(fields[i][2]) ELSE JNull>>])]

(* custom_serialize!: len counts the values that are Some, then one      *)
(* serialize_field per value that is Some, in the order of the list      *)
custom_serialize(fields) ==
    [len |-> Cardinality({i \in 1..Len(fields) : IsSome(fields[i][2])}),
     obj |-> JObj(EmitSome(fields))]

(* derive(Serialize) on a struct all of whose fields carry               *)
(* skip_serializing_if = "Option::is_none"                               *)
derive_serialize_skip_none(fields) ==
    [len |-> Cardinality({i \in 1..Len(fields) : IsSome(fields[i][2])}),
     obj |-> JObj(EmitSome(fields))]

(* impl Serialize for light::StateModifier *)
SerializeLightState(m) ==
    custom_serialize(<<
        <<"on", OptBool(m.on)>>,
        <<"bri", OptNum(to_override(m.brightness))>>,
        <<"bri_inc", OptNum(to_increment(m.brightness, 16))>>,
        <<"hue", OptNum(to_override(m.hue))>>,
        <<"hue_inc", OptNum(to_increment(m.hue, 32))>>,
        <<"sat", OptNum(to_override(m.saturation))>>,
        <<"sat_inc", OptNum(to_increment(m.saturation, 16))>>,
        <<"xy", OptPair(to_override(m.color_space_coordinates))>>,
        <<"xy_inc", OptPair(to_increment_tuple(m.color_space_coordinates))>>,
        <<"ct", OptNum(to_override(m.color_temperature))>>,
        <<"ct_inc", OptNum(to_increment(m.color_temperature, 32))>>,
        <<"alert", OptStr(m.alert)>>,
        <<"effect", OptStr(m.effect)>>,
        <<"transitiontime", OptNum(m.transition_time)>> >>)

(* impl Serialize for group::StateModifier *)
SerializeGroupState(m) ==
    custom_serialize(<<
        <<"on", OptBool(m.on)>>,
        <<"bri", OptNum(to_override(m.brightness))>>,
        <<"bri_inc", OptNum(to_increment(m.brightness, 16))>>,
        <<"hue", OptNum(to_override(m.hue))>>,
        <<"hue_inc", OptNum(to_increment(m.hue, 32))>>,
        <<"sat", OptNum(to_override(m.saturation))>>,
        <<"sat_inc", OptNum(to_increment(m.saturation, 16))>>,
        <<"xy", OptPair(to_override(m.color_space_coordinates))>>,
        <<"xy_inc", OptPair(to_increment_tuple(m.color_space_coordinates))>>,
        <<"ct", OptNum(to_override(m.color_temperature))>>,
        <<"ct_inc", OptNum(to_increment(m.color_temperature, 32))>>,
        <<"alert", OptStr(m.alert)>>,
        <<"effect", OptStr(m.effect)>>,
        <<"transitiontime", OptNum(m.transition_time)>>,
        <<"scene", OptStr(m.scene)>> >>)

(* derive(Serialize) for light::StaticStateModifier *)
SerializeStaticState(m) ==
    derive_serialize_skip_none(<<
        <<"on", OptBool(m.on)>>,
        <<"bri", OptNum(m.brightness)>>,
        <<"hue", OptNum(m.hue)>>,
        <<"sat", OptNum(m.saturation)>>,
        <<"xy", OptPair(m.color_space_coordinates)>>,
        <<"ct", OptNum(m.color_temperature)>>,
        <<"effect", OptStr(m.effect)>>,
        <<"transitiontime", OptNum(m.transition_time)>> >>)

(* derive(Serialize) for light::AttributeModifier *)
SerializeAttribute(m) == derive_serialize_skip_none(<< <<"name", OptStr(m.name)>> >>)

(* derive(Serialize) for light::Scanner *)
SerializeScanner(m) ==
    derive_serialize_skip_none(<< <<"deviceid", OptStrings(m.device_ids)>> >>)

(* group::Creator: name and lights are not optional *)
SerializeGroupCreator(m) ==
    derive_serialize_skip_none(<<
        <<"name", Some(JStr(m.name))>>,
        <<"lights", OptStrings(Some(m.lights))>>,
        <<"sensors", OptStrings(m.sensors)>>,
        <<"type", OptStr(m.kind)>>,
        <<"class", OptStr(m.class)>>,
        <<"recycle", OptBool(m.recycle)>> >>)

PayloadKinds ==
    {"light::StateModifier", "group::StateModifier", "light::StaticStateModifier",
     "light::AttributeModifier", "light::Scanner", "group::Creator"}

(* serde_json::to_value(self) *)
to_value(k, m) ==
    CASE k = "light::StateModifier" -> SerializeLightState(m)
      [] k = "group::StateModifier" -> SerializeGroupState(m)
      [] k = "light::StaticStateModifier" -> SerializeStaticState(m)
      [] k = "light::AttributeModifier" -> SerializeAttribute(m)
      [] k = "light::Scanner" -> SerializeScanner(m)
      [] k = "group::Creator" -> SerializeGroupCreator(m)

(* StateModifier::new(), ... : Self::default(), every field None;       *)
(* group::Creator::new(name, lights)                                     *)
new(k) ==
    CASE k = "light::StateModifier" ->
            [on |-> None, brightness |-> None, hue |-> None, saturation |-> None,
             color_space_coordinates |-> None, color_temperature |-> None,
             alert |-> None, effect |-> None, transition_time |-> None]
      [] k = "group::StateModifier" ->
            [on |-> None, brightness |-> None, hue |-> None, saturation |-> None,
             color_space_coordinates |-> None, color_temperature |-> None,
             alert |-> None, effect |-> None, transition_time |-> None,
             scene |-> None]
      [] k = "light::StaticStateModifier" ->
            [on |-> None, brightness |-> None, hue |-> None, saturation |-> None,
             color_space_coordinates |-> None, color_temperature |-> None,
             effect |-> None, transition_time |-> None]
      [] k = "light::AttributeModifier" -> [name |-> None]
      [] k = "light::Scanner" -> [device_ids |-> None]
      [] k = "group::Creator" ->
            [name |-> "test", lights |-> <<"1", "2">>, sensors |-> None,
             kind |-> None, class |-> None, recycle |-> None]

-----------------------------------------------------------------------------
(* the values the caller is made to pass to the setters *)

MaxSetFields == 2

U8Values == {0, 1, U8Max}
U16Values == {0, 1, U16Max}
F32Pairs == {<<0, 0>>, <<1, 2>>, <<0 - 1, 2>>}
AdjustOf(S) == {Override(x) : x \in S} \cup {Increment(x) : x \in S} \cup {Decrement(x) : x \in S}

Adjusted(k) == k \in {"light::StateModifier", "group::StateModifier"}

(* the optional fields of a payload type, and the values of their types *)
OptionalFields(k) ==
    IF k = "group::Creator" THEN {"sensors", "kind", "class", "recycle"}
    ELSE DOMAIN new(k)

FieldValues(k, f) ==
    CASE f \in {"on", "recycle"} -> BOOLEAN
      [] f \in {"brightness", "saturation"} ->
            IF Adjusted(k) THEN AdjustOf(U8Values) ELSE U8Values
      [] f \in {"hue", "color_temperature"} ->
            IF Adjusted(k) THEN AdjustOf(U16Values) ELSE U16Values
      [] f = "color_space_coordinates" ->
            IF Adjusted(k) THEN AdjustOf(F32Pairs) ELSE F32Pairs
      [] f = "alert" -> {"select", "lselect", "none"}
      [] f = "effect" -> {"colorloop", "none"}
      [] f = "transition_time" -> {4}
      [] f = "scene" -> {"1"}
      [] f = "name" -> {"test"}
      [] f = "kind" -> {"Room"}
      [] f = "class" -> {"Office"}
      [] f \in {"device_ids", "sensors"} -> {<<"1">>}

SetFields(k, m) == {f \in OptionalFields(k) : IsSome(m[f])}

-----------------------------------------------------------------------------
(* color.rs.  An f32 is held in fixed point: a channel, a coordinate and  *)
(* a coefficient in units of 1/Fixed, a product of two of them in units   *)
(* of 1/(Fixed * Fixed).                                                   *)

Fixed == 10000

(* gamma_correct(v as f32 / 255.0) for v = 0 .. 255, entry v + 1:        *)
(* ((v + 0.055) / 1.055).powf(2.4) above 0.04045, v / 12.92 below        *)
GammaCorrected ==
    <<
      0, 3, 6, 9, 12, 15, 18, 21, 24, 27, 30, 33, 37, 40, 44, 48, 52, 56,
      60, 65, 70, 75, 80, 86, 91, 97, 103, 110, 116, 123, 130, 137, 144,
      152, 160, 168, 176, 185, 194, 203, 212, 222, 232, 242, 252, 262, 273,
      284, 296, 307, 319, 331, 343, 356, 369, 382, 395, 409, 423, 437, 452,
      467, 482, 497, 513, 529, 545, 561, 578, 595, 612, 630, 648, 666, 685,
      704, 723, 742, 762, 782, 802, 823, 844, 865, 887, 908, 931, 953, 976,
      999, 1022, 1046, 1070, 1095, 1119, 1144, 1170, 1195, 1221, 1248,
      1274, 1301, 1329, 1356, 1384, 1413, 1441, 1470, 1500, 1529, 1559,
      1590, 1620, 1651, 1683, 1714, 1746, 1779, 1812, 1845, 1878, 1912,
      1946, 1981, 2016, 2051, 2086, 2122, 2159, 2195, 2232, 2270, 2307,
      2346, 2384, 2423, 2462, 2502, 2542, 2582, 2623, 2664, 2705, 2747,
      2789, 2831, 2874, 2918, 2961, 3005, 3050, 3095, 3140, 3185, 3231,
      3278, 3325, 3372, 3419, 3467, 3515, 3564, 3613, 3663, 3712, 3763,
      3813, 3864, 3916, 3968, 4020, 4072, 4125, 4179, 4233, 4287, 4342,
      4397, 4452, 4508, 4564, 4621, 4678, 4735, 4793, 4851, 4910, 4969,
      5029, 5089, 5149, 5210, 5271, 5333, 5395, 5457, 5520, 5583, 5647,
      5711, 5776, 5841, 5906, 5972, 6038, 6105, 6172, 6240, 6308, 6376,
      6445, 6514, 6584, 6654, 6724, 6795, 6867, 6939, 7011, 7084, 7157,
      7231, 7305, 7379, 7454, 7529, 7605, 7682, 7758, 7835, 7913, 7991,
      8070, 8148, 8228, 8308, 8388, 8469, 8550, 8632, 8714, 8796, 8879,
      8963, 9047, 9131, 9216, 9301, 9387, 9473, 9560, 9647, 9734, 9823,
      9911, 10000 >>

gamma_correct(v) == GammaCorrected[v + 1]

(* the rows of the matrix: red, green, blue coefficients of x, y and z *)
XCoefficients == <<6499, 1035, 1971>>
YCoefficients == <<2343, 7431, 226>>
ZCoefficients == <<0, 531, 10358>>

Weighted(c, red, green, blue) == red * c[1] + green * c[2] + blue * c[3]

(* v / (x + y + z + f32::MIN_POSITIVE): the added term is below the      *)
(* resolution of every sum but the sum 0, where it makes 0 / 0 a 0       *)
Chromaticity(v, sum) ==
    IF sum = 0 THEN 0 ELSE (v * 10) \div (sum \div (Fixed \div 10))

(* (y * 255.0) as u8: the float to integer cast drops the fraction and   *)
(* saturates at the ends of the u8 range                                 *)
F32AsU8(y255) ==
    LET n == y255 \div (Fixed * 100) IN
    IF n < 0 THEN 0 ELSE IF n > U8Max THEN U8Max ELSE n

(* Color { space_coordinates, brightness } *)
Color(xy, brightness) == [space_coordinates |-> xy, brightness |-> brightness]

(* Color::from_space_coordinates keeping the coordinates inside 0 .. 1 *)
from_space_coordinates_Clamped(x, y) ==
    LET clamp(v) == IF v < 0 THEN 0 ELSE IF v > Fixed THEN Fixed ELSE v
    IN Color(<<clamp(x), clamp(y)>>, None)

(* Color::from_space_coordinates *)
from_space_coordinates(x, y) == Color(<<x, y>>, None)

(* Color::from_rgb *)
from_rgb(red, green, blue) ==
    LET r == gamma_correct(red)
        g == gamma_correct(green)
        b == gamma_correct(blue)
        x == Weighted(XCoefficients, r, g, b)
        y == Weighted(YCoefficients, r, g, b)
        z == Weighted(ZCoefficients, r, g, b)
    IN Color(<<Chromaticity(x, x + y + z), Chromaticity(y, x + y + z)>>,
             Some(F32AsU8((y \div 100) * 255)))

(* A str is the sequence of its characters; a character outside ASCII   *)
(* takes more than one byte of the UTF-8 text.                           *)
TwoByteChars == {"U+00E9"}
len_utf8(c) == IF c \in TwoByteChars THEN 2 ELSE 1

(* str::len: the length in bytes *)
RECURSIVE len(_)
len(s) == IF s = <<>> THEN 0 ELSE len_utf8(Head(s)) + len(Tail(s))

(* the byte offset at which character i of s starts *)
Offset(s, i) == len(SubSeq(s, 1, i - 1))

(* str::is_char_boundary *)
is_char_boundary(s, index) ==
    index = len(s) \/ \E i \in 1..Len(s) : Offset(s, i) = index

(* what a panic leaves: no Result at all *)
Panicked == [ok |-> FALSE, val |-> <<>>, err |-> <<>>]

(* &s[begin..end]: the characters between two byte offsets; slicing      *)
(* inside a character panics                                             *)
Slice(s, begin, end) ==
    IF is_char_boundary(s, begin) /\ is_char_boundary(s, end)
    THEN Ok(SelectSeq([i \in 1..Len(s) |-> <<s[i], Offset(s, i)>>],
                      LAMBDA p : p[2] >= begin /\ p[2] < end))
    ELSE Panicked

(* char::to_digit(16) *)
HexDigits ==
    { <<"0", 0>>, <<"1", 1>>, <<"2", 2>>, <<"3", 3>>, <<"4", 4>>, <<"5", 5>>,
      <<"6", 6>>, <<"7", 7>>, <<"8", 8>>, <<"9", 9>>,
      <<"a", 10>>, <<"b", 11>>, <<"c", 12>>, <<"d", 13>>, <<"e", 14>>, <<"f", 15>>,
      <<"A", 10>>, <<"B", 11>>, <<"C", 12>>, <<"D", 13>>, <<"E", 14>>, <<"F", 15>> }
is_digit(c) == \E d \in HexDigits : d[1] = c
to_digit(c) == (CHOOSE d \in HexDigits : d[1] = c)[2]

(* ParseHexError and the kinds of ParseIntError *)
InvalidLenght == [kind |-> "InvalidLenght", error |-> <<>>]
ParseInt(e) == [kind |-> "ParseInt", error |-> <<e>>]

(* the digits read in radix 10 *)
RECURSIVE Digits_Radix10(_, _)
Digits_Radix10(digits, acc) ==
    IF digits = <<>> THEN Ok(acc)
    ELSE IF ~is_digit(Head(digits)) THEN Err(ParseInt("InvalidDigit"))
    ELSE IF acc * 10 + to_digit(Head(digits)) > U8Max THEN Err(ParseInt("PosOverflow"))
    ELSE Digits_Radix10(Tail(digits), acc * 10 + to_digit(Head(digits)))

(* the digits of from_str_radix, most significant first *)
RECURSIVE Digits(_, _)
Digits(digits, acc) ==
    IF digits = <<>> THEN Ok(acc)
    ELSE IF ~is_digit(Head(digits)) THEN Err(ParseInt("InvalidDigit"))
    ELSE IF acc * 16 + to_digit(Head(digits)) > U8Max THEN Err(ParseInt("PosOverflow"))
    ELSE Digits(Tail(digits), acc * 16 + to_digit(Head(digits)))

(* u8::from_str_radix(src, 16): a leading + is a sign and is skipped; a  *)
(* - is no sign of an unsigned type and is read as a digit; a sign alone *)
(* is not a number                                                       *)
from_str_radix(src) ==
    IF src = <<>> THEN Err(ParseInt("Empty"))
    ELSE IF Len(src) = 1 /\ Head(src) \in {"+", "-"} THEN Err(ParseInt("InvalidDigit"))
    ELSE IF Head(src) = "+" THEN Digits(Tail(src), 0)
    ELSE Digits(src, 0)

(* u8::from_str_radix(&s[begin..end], 16)? *)
ParseSlice(s, begin, end) ==
    LET src == Slice(s, begin, end) IN
    IF src = Panicked THEN Panicked
    ELSE from_str_radix([i \in 1..Len(src.val) |-> src.val[i][1]])

(* every failure reported as a failure of the length *)
FirstFailure_AsLength(a, b, c) == Err(InvalidLenght)

(* the first of three outcomes that is not Ok, as a chain of ? gives it *)
FirstFailure(a, b, c) == IF ~a.ok THEN a ELSE IF ~b.ok THEN b ELSE c

(* Color::from_hex expanding a digit d to d * 16 *)
from_hex_Shifted(s) ==
    CASE len(s) = 4 ->
            LET red == ParseSlice(s, 1, 2)
                green == ParseSlice(s, 2, 3)
                blue == ParseSlice(s, 3, 4)
            IN IF red.ok /\ green.ok /\ blue.ok
               THEN Ok(from_rgb(red.val * 16, green.val * 16, blue.val * 16))
               ELSE FirstFailure(red, green, blue)
      [] len(s) = 7 ->
            LET red == ParseSlice(s, 1, 3)
                green == ParseSlice(s, 3, 5)
                blue == ParseSlice(s, 5, 7)
            IN IF red.ok /\ green.ok /\ blue.ok
               THEN Ok(from_rgb(red.val, green.val, blue.val))
               ELSE FirstFailure(red, green, blue)
      [] OTHER -> Err(InvalidLenght)

(* Color::from_hex.  In the 4 byte form a digit is at most 15, so        *)
(* red * 16 + red is at most 255 and the u8 arithmetic does not overflow. *)
from_hex(s) ==
    CASE len(s) = 4 ->
            LET red == ParseSlice(s, 1, 2)
                green == ParseSlice(s, 2, 3)
                blue == ParseSlice(s, 3, 4)
            IN IF red.ok /\ green.ok /\ blue.ok
               THEN Ok(from_rgb(red.val * 16 + red.val,
                                green.val * 16 + green.val,
                                blue.val * 16 + blue.val))
               ELSE FirstFailure(red, green, blue)
      [] len(s) = 7 ->
            LET red == ParseSlice(s, 1, 3)
                green == ParseSlice(s, 3, 5)
                blue == ParseSlice(s, 5, 7)
            IN IF red.ok /\ green.ok /\ blue.ok
               THEN Ok(from_rgb(red.val, green.val, blue.val))
               ELSE FirstFailure(red, green, blue)
      [] OTHER -> Err(InvalidLenght)

(* the arguments the constructors are called with *)
Coordinates == {0 - Fixed, 0, 1000, 2000, Fixed, 2 * Fixed}
RgbBytes == {0, 1, 15, 17, 34, 128, 254, U8Max}

HexChars == {d[1] : d \in HexDigits}
ShortHexInputs == {<<"#", a, b, c>> : a \in HexChars, b \in HexChars, c \in HexChars}

LongHexChars == {"0", "1", "a", "F", "f"}
LongHexInputs ==
    {<<"#">> \o p \o q \o r :
        p \in LongHexChars \X LongHexChars,
        q \in LongHexChars \X LongHexChars,
        r \in LongHexChars \X LongHexChars}

(* every two-digit byte, in every mix of letter cases, in one channel *)
ChannelSweepInputs ==
    {<<"#">> \o p \o <<"0", "0", "0", "0">> : p \in HexChars \X HexChars}
    \cup {<<"#", "0", "0">> \o p \o <<"0", "0">> : p \in HexChars \X HexChars}
    \cup {<<"#", "0", "0", "0", "0">> \o p : p \in HexChars \X HexChars}

MaxHexLen == 4
TextChars == {"#", "1", "f", "z", "+", "-", "U+00E9"}
Texts == BSeq(TextChars, MaxHexLen)

Leads == {"#", "1", "z"}
Pairs ==
    { <<"1", "f">>, <<"+", "f">>, <<"f", "+">>, <<"-", "1">>, <<"z", "z">>,
      <<"1", "z">>, <<"U+00E9">> }
LongTexts == {<<l>> \o p \o q \o r : l \in Leads, p \in Pairs, q \in Pairs, r \in Pairs}

OtherTexts ==
    { <<"#", "1", "2", "3", "4", "5">>,
      <<"#", "1", "2", "3", "4", "5", "6", "7">>,
      <<"#", "1", "U+00E9", "1", "1", "1">> }

HexInputs ==
    ShortHexInputs \cup LongHexInputs \cup ChannelSweepInputs \cup Texts
    \cup LongTexts \cup OtherTexts

(* the constructors of Color, each called on its own *)
NoConstructor == "none"
NoColor == [space_coordinates |-> <<>>, brightness |-> None]

ColorInit ==
    /\ color_call = NoConstructor
    /\ color_args = <<>>
    /\ color = NoColor

FromSpaceCoordinates ==
    /\ color_call = NoConstructor
    /\ \E x \in Coordinates, y \in Coordinates :
        /\ color_call' = "Color::from_space_coordinates"
        /\ color_args' = <<x, y>>
        /\ color' = from_space_coordinates(x, y)

FromRgb ==
    /\ color_call = NoConstructor
    /\ \E red \in RgbBytes, green \in RgbBytes, blue \in RgbBytes :
        /\ color_call' = "Color::from_rgb"
        /\ color_args' = <<red, green, blue>>
        /\ color' = from_rgb(red, green, blue)

FromHex ==
    /\ color_call = NoConstructor
    /\ \E s \in HexInputs :
        /\ color_call' = "Color::from_hex"
        /\ color_args' = <<s>>
        /\ color' = from_hex(s)

(* the value is dropped *)
ColorDrop ==
    /\ color_call # NoConstructor
    /\ color_call' = NoConstructor
    /\ color_args' = <<>>
    /\ color' = NoColor

ColorNext == FromSpaceCoordinates \/ FromRgb \/ FromHex \/ ColorDrop

-----------------------------------------------------------------------------
(* the state machine of a payload: new, setters, one serialization *)

(* resource/light.rs, resource/group.rs: StateModifier::with_color that  *)
(* leaves a brightness that is already set as it is                      *)
with_color_KeepBrightness(self, value) ==
    LET m == [self EXCEPT
                !.color_space_coordinates = Some(Override(value.space_coordinates))]
    IN IF IsSome(value.brightness) /\ ~IsSome(self.brightness)
       THEN [m EXCEPT !.brightness = Some(Override(Unwrap(value.brightness)))]
       ELSE m

(* StateModifier::with_color, the same for a light and for a group *)
with_color(self, value) ==
    LET m == [self EXCEPT
                !.color_space_coordinates = Some(Override(value.space_coordinates))]
    IN IF IsSome(value.brightness)
       THEN [m EXCEPT !.brightness = Some(Override(Unwrap(value.brightness)))]
       ELSE m

(* resource/mod.rs: the trait a payload type implements *)
Role(k) ==
    CASE k = "group::Creator" -> "Creator"
      [] k = "light::Scanner" -> "Scanner"
      [] OTHER -> "Modifier"

(* url_suffix of the impl of the trait; a Creator and a Scanner take no id *)
url_suffix(k, id) ==
    CASE k = "light::AttributeModifier" -> "lights/" \o id
      [] k = "light::StaticStateModifier" -> "lights/" \o id \o "/state"
      [] k = "light::StateModifier" -> "lights/" \o id \o "/state"
      [] k = "group::StateModifier" -> "groups/" \o id \o "/action"
      [] k = "light::Scanner" -> "lights"
      [] k = "group::Creator" -> "groups"

(* execute with every payload sent by POST *)
execute_request_AllPost(k, self, id) ==
    [url_suffix |-> url_suffix(k, id), method |-> "Post",
     body |-> Some(to_value(k, self).obj)]

(* Creator::execute, Modifier::execute, Scanner::execute: what is handed  *)
(* to Bridge::api_request                                                 *)
execute_request(k, self, id) ==
    [url_suffix |-> url_suffix(k, id),
     method |-> IF Role(k) = "Modifier" THEN "Put" ELSE "Post",
     body |-> Some(to_value(k, self).obj)]

(* schedule::Command::from_creator, from_modifier, from_scanner; the     *)
(* request_method is held as serde writes it (rename_all = "UPPERCASE")  *)
from_creator(k, creator, username) ==
    [address |-> "/api/" \o username \o "/" \o url_suffix(k, ""),
     request_method |-> "POST",
     body |-> to_value(k, creator).obj]

from_modifier(k, m, id, username) ==
    [address |-> "/api/" \o username \o "/" \o url_suffix(k, id),
     request_method |-> "PUT",
     body |-> to_value(k, m).obj]

from_scanner(k, scanner, username) ==
    [address |-> "/api/" \o username \o "/" \o url_suffix(k, ""),
     request_method |-> "POST",
     body |-> to_value(k, scanner).obj]

(* the Command of a payload, by the trait of its type *)
CommandOf(k, self, id, username) ==
    CASE Role(k) = "Creator" -> from_creator(k, self, username)
      [] Role(k) = "Modifier" -> from_modifier(k, self, id, username)
      [] Role(k) = "Scanner" -> from_scanner(k, self, username)

CommandUsernames == {"user", "abc"}
NoId == ""
IdsOf(k) == IF Role(k) = "Modifier" THEN LightIds ELSE {NoId}
NotIssued == [op |-> "none", id |-> NoId, username |-> "", out |-> <<>>]

NoSetter == [name |-> "none", value |-> <<>>]

(* the colours a caller is made to pass to with_color *)
SetterColors ==
    {from_rgb(0, 0, 0), from_rgb(U8Max, U8Max, U8Max), from_space_coordinates(1000, 2000)}

SerInit ==
    /\ kind = "none"
    /\ modifier = <<>>
    /\ payload = None
    /\ setter = NoSetter
    /\ issued = NotIssued

(* T::new() *)
NewPayload ==
    /\ kind = "none"
    /\ \E k \in PayloadKinds :
        /\ kind' = k
        /\ modifier' = new(k)
        /\ payload' = None
        /\ setter' = NoSetter
        /\ issued' = NotIssued

(* derive(Setters), strip_option, prefix "with_": with_<field>(value)   *)
(* stores Some(value) in the field and leaves the others as they are    *)
WithField ==
    /\ kind # "none"
    /\ payload = None
    /\ \E f \in OptionalFields(kind) :
        \E x \in FieldValues(kind, f) :
            /\ Cardinality(SetFields(kind, modifier) \cup {f}) <= MaxSetFields
            /\ modifier' = [modifier EXCEPT ![f] = Some(x)]
            /\ setter' = [name |-> "with_" \o f, value |-> x]
            /\ UNCHANGED <<kind, payload, issued>>

(* StateModifier::with_color(value) on a light or a group *)
WithColor ==
    /\ Adjusted(kind)
    /\ payload = None
    /\ \E value \in SetterColors :
        /\ Cardinality(SetFields(kind, with_color(modifier, value))) <= MaxSetFields
        /\ modifier' = with_color(modifier, value)
        /\ setter' = [name |-> "with_color", value |-> value]
        /\ UNCHANGED <<kind, payload, issued>>

(* the payload is serialized for the request body *)
Serialize ==
    /\ kind # "none"
    /\ payload = None
    /\ payload' = Some(to_value(kind, modifier))
    /\ UNCHANGED <<kind, modifier, setter, issued>>

(* payload.execute(bridge) or payload.execute(bridge, id): the payload   *)
(* is serialized and handed to api_request with its verb and suffix      *)
Execute ==
    /\ kind # "none"
    /\ payload = None
    /\ \E id \in IdsOf(kind) :
        /\ issued' = [op |-> "execute", id |-> id, username |-> "",
                      out |-> execute_request(kind, modifier, id)]
        /\ payload' = Some(to_value(kind, modifier))
        /\ UNCHANGED <<kind, modifier, setter>>

(* Command::from_creator, from_modifier or from_scanner on the payload   *)
FromPayload ==
    /\ kind # "none"
    /\ payload = None
    /\ \E id \in IdsOf(kind), username \in CommandUsernames :
        /\ issued' = [op |-> "Command::from_" \o
                              (CASE Role(kind) = "Creator" -> "creator"
                                 [] Role(kind) = "Modifier" -> "modifier"
                                 [] Role(kind) = "Scanner" -> "scanner"),
                      id |-> id, username |-> username,
                      out |-> CommandOf(kind, modifier, id, username)]
        /\ payload' = Some(to_value(kind, modifier))
        /\ UNCHANGED <<kind, modifier, setter>>

(* the payload value is dropped *)
Drop ==
    /\ payload # None
    /\ kind' = "none"
    /\ modifier' = <<>>
    /\ payload' = None
    /\ setter' = NoSetter
    /\ issued' = NotIssued

SerNext ==
    NewPayload \/ WithField \/ WithColor \/ Serialize \/ Execute \/ FromPayload \/ Drop

-----------------------------------------------------------------------------
(* lib.rs, light.rs, group.rs, scene.rs: the modifiers that are built by  *)
(* chained method calls, each call taking self and returning Self         *)

(* enum ModifierType, enum CoordinateModifierType *)
ModifierTypes == {"Override", "Increment", "Decrement"}
CoordinateModifierTypes ==
    {"Override", "Increment", "Decrement", "IncrementDecrement", "DecrementIncrement"}

BuilderKinds ==
    {"light::StateModifier", "group::StateModifier", "scene::LightStateModifier",
     "scene::Modifier", "light::AttributeModifier", "group::AttributeModifier",
     "scene::AppData"}

(* the fields of the structs, in the order of their declaration *)
LightStateModifierFields ==
    <<"on", "brightness", "hue", "saturation", "color_space_coordinates",
      "color_temperature", "alert", "effect", "transition_time",
      "brightness_increment", "hue_increment", "saturation_increment",
      "color_space_coordinates_increment", "color_temperature_increment">>
GroupStateModifierFields == LightStateModifierFields \o <<"scene">>
SceneLightStateModifierFields ==
    <<"on", "brightness", "hue", "saturation", "color_space_coordinates",
      "color_temperature", "effect", "transition_time">>
SceneModifierFields == <<"name", "lights", "light_states", "store_light_state">>

BuilderFields(k) ==
    CASE k = "light::StateModifier" -> LightStateModifierFields
      [] k = "group::StateModifier" -> GroupStateModifierFields
      [] k = "scene::LightStateModifier" -> SceneLightStateModifierFields
      [] k = "scene::Modifier" -> SceneModifierFields
      [] k = "light::AttributeModifier" -> <<"name">>
      [] k = "group::AttributeModifier" -> <<"name", "lights", "class">>
      [] k = "scene::AppData" -> <<"version", "data">>

(* derive(Default) on a struct of Options: every field None *)
default(k) ==
    [f \in {BuilderFields(k)[i] : i \in 1..Len(BuilderFields(k))} |-> None]

(* is_empty looking at the first field only *)
is_empty_FirstField(k, self) == self[BuilderFields(k)[1]] = None

(* trait Modifier: new() and is_empty(), by derive(PartialEq) *)
Modifier_new(k) == default(k)
is_empty(k, self) == self = default(k)

(* a method that stores Some(value) in one field: on, alert, effect,      *)
(* transition_time, scene, name, lights, store_light_state and the        *)
(* methods of scene::LightStateModifier                                   *)
set_field(self, field, value) == [self EXCEPT ![field] = Some(value)]

(* the casts made to a type 8 bits wide: `value as i8` *)
set_adjusted_Narrow(self, field, bits, modifier_type, value) ==
    LET as_i8 == ((value + 128) % 256) - 128 IN
    CASE modifier_type = "Override" -> [self EXCEPT ![field] = Some(value)]
      [] modifier_type = "Increment" ->
            [self EXCEPT ![field \o "_increment"] = Some(as_i8)]
      [] modifier_type = "Decrement" ->
            [self EXCEPT ![field \o "_increment"] = Some(0 - as_i8)]

(* brightness and saturation: u8 to i16; hue and color_temperature: u16   *)
(* to i32.  The match of the four methods is the same but for the field   *)
(* and the width.                                                         *)
set_adjusted(self, field, bits, modifier_type, value) ==
    CASE modifier_type = "Override" -> [self EXCEPT ![field] = Some(value)]
      [] modifier_type = "Increment" ->
            [self EXCEPT ![field \o "_increment"] = Some(AsSigned(value, bits))]
      [] modifier_type = "Decrement" ->
            [self EXCEPT ![field \o "_increment"] =
                Some(NegSigned(AsSigned(value, bits), bits))]

brightness(self, modifier_type, value) ==
    set_adjusted(self, "brightness", 16, modifier_type, value)
hue(self, modifier_type, value) ==
    set_adjusted(self, "hue", 32, modifier_type, value)
saturation(self, modifier_type, value) ==
    set_adjusted(self, "saturation", 16, modifier_type, value)
color_temperature(self, modifier_type, value) ==
    set_adjusted(self, "color_temperature", 32, modifier_type, value)

(* StateModifier::color_space_coordinates with Decrement negating the     *)
(* first component only                                                   *)
color_space_coordinates_FirstOnly(self, modifier_type, value) ==
    CASE modifier_type = "Override" ->
            [self EXCEPT !.color_space_coordinates = Some(value)]
      [] modifier_type = "Increment" ->
            [self EXCEPT !.color_space_coordinates_increment = Some(value)]
      [] modifier_type \in {"Decrement", "DecrementIncrement"} ->
            [self EXCEPT !.color_space_coordinates_increment =
                Some(<<0 - value[1], value[2]>>)]
      [] modifier_type = "IncrementDecrement" ->
            [self EXCEPT !.color_space_coordinates_increment =
                Some(<<value[1], 0 - value[2]>>)]

(* StateModifier::color_space_coordinates *)
color_space_coordinates(self, modifier_type, value) ==
    CASE modifier_type = "Override" ->
            [self EXCEPT !.color_space_coordinates = Some(value)]
      [] modifier_type = "Increment" ->
            [self EXCEPT !.color_space_coordinates_increment = Some(value)]
      [] modifier_type = "Decrement" ->
            [self EXCEPT !.color_space_coordinates_increment =
                Some(<<0 - value[1], 0 - value[2]>>)]
      [] modifier_type = "IncrementDecrement" ->
            [self EXCEPT !.color_space_coordinates_increment =
                Some(<<value[1], 0 - value[2]>>)]
      [] modifier_type = "DecrementIncrement" ->
            [self EXCEPT !.color_space_coordinates_increment =
                Some(<<0 - value[1], value[2]>>)]

(* light::StateModifier::color *)
StateModifier_color(self, value) ==
    LET s == [self EXCEPT !.color_space_coordinates = Some(value.space_coordinates)]
    IN IF IsSome(value.brightness)
       THEN [s EXCEPT !.brightness = Some(Unwrap(value.brightness))]
       ELSE s

(* scene::Modifier::light_state: unwrap_or_default, insert, Some.  The    *)
(* HashMap is the function from the ids it holds to their modifiers.      *)
light_state(self, id, m) ==
    LET light_states ==
            IF IsSome(self.light_states) THEN Unwrap(self.light_states) ELSE <<>>
    IN [self EXCEPT !.light_states =
            Some([i \in (DOMAIN light_states) \cup {id} |->
                    IF i = id THEN m ELSE light_states[i]])]

(* serde(rename = ...) of the fields *)
BuilderWireName(f) ==
    CASE f = "brightness" -> "bri"
      [] f = "saturation" -> "sat"
      [] f = "color_space_coordinates" -> "xy"
      [] f = "color_temperature" -> "ct"
      [] f = "transition_time" -> "transitiontime"
      [] f = "brightness_increment" -> "bri_inc"
      [] f = "hue_increment" -> "hue_inc"
      [] f = "saturation_increment" -> "sat_inc"
      [] f = "color_space_coordinates_increment" -> "xy_inc"
      [] f = "color_temperature_increment" -> "ct_inc"
      [] f = "light_states" -> "lightstates"
      [] f = "store_light_state" -> "storelightstate"
      [] OTHER -> f

(* Serialize of the type of a field *)
BuilderFieldJson(f, o) ==
    CASE f \in {"on", "store_light_state"} -> OptBool(o)
      [] f \in {"color_space_coordinates", "color_space_coordinates_increment"} ->
            OptPair(o)
      [] f \in {"alert", "effect", "scene", "name", "class", "data"} -> OptStr(o)
      [] f = "lights" -> OptStrings(o)
      [] OTHER -> OptNum(o)

(* derive(Serialize), every field with skip_serializing_if = Option::is_none *)
SerializeBuilderFields(fields, m) ==
    derive_serialize_skip_none(
        [i \in 1..Len(fields) |->
            <<BuilderWireName(fields[i]), BuilderFieldJson(fields[i], m[fields[i]])>>])

(* the ids a scene is given light states for; a HashMap is serialized in  *)
(* the order of its iteration, taken here as the order of the ids         *)
SceneLightIds == <<"1", "2">>

SerializeLightStates(o) ==
    IF ~IsSome(o) THEN None
    ELSE LET held == SelectSeq(SceneLightIds, LAMBDA id : id \in DOMAIN Unwrap(o))
         IN Some(JObj([i \in 1..Len(held) |->
                <<held[i],
                  SerializeBuilderFields(SceneLightStateModifierFields,
                                         Unwrap(o)[held[i]]).obj>>]))

(* derive(Serialize) for scene::Modifier *)
SerializeSceneModifier(m) ==
    derive_serialize_skip_none(<<
        <<"name", OptStr(m.name)>>,
        <<"lights", OptStrings(m.lights)>>,
        <<"lightstates", SerializeLightStates(m.light_states)>>,
        <<"storelightstate", OptBool(m.store_light_state)>> >>)

(* serde_json::to_value of a built modifier *)
builder_to_value(k, m) ==
    IF k = "scene::Modifier" THEN SerializeSceneModifier(m)
    ELSE SerializeBuilderFields(BuilderFields(k), m)

-----------------------------------------------------------------------------
(* the calls a caller is made to chain *)

MaxBuilderFields == 2

NoType == "none"
BuilderCallOf(method, modifier_type, value) ==
    [method |-> method, modifier_type |-> modifier_type, value |-> value]

BuilderColors ==
    {from_rgb(0, 0, 0), from_rgb(U8Max, U8Max, U8Max), from_space_coordinates(1000, 2000)}

SceneLightStates ==
    {default("scene::LightStateModifier"),
     set_field(default("scene::LightStateModifier"), "on", TRUE)}

(* the calls a type offers, grouped by the type of the value they take *)
Adjustable(k) == k \in {"light::StateModifier", "group::StateModifier"}
LightStateKinds ==
    {"light::StateModifier", "group::StateModifier", "scene::LightStateModifier"}
TypesOf(k, S) == IF Adjustable(k) THEN S ELSE {NoType}

BoolCalls(k) ==
    CASE k = "scene::Modifier" ->
            {BuilderCallOf("store_light_state", NoType, b) : b \in BOOLEAN}
      [] k \in LightStateKinds -> {BuilderCallOf("on", NoType, b) : b \in BOOLEAN}
      [] OTHER -> {}

StrCalls(k) ==
    CASE k \in {"scene::Modifier", "light::AttributeModifier"} ->
            {BuilderCallOf("name", NoType, "test")}
      [] k = "group::AttributeModifier" ->
            {BuilderCallOf("name", NoType, "test"), BuilderCallOf("class", NoType, "Office")}
      [] k = "scene::AppData" -> {BuilderCallOf("data", NoType, "test")}
      [] k = "scene::LightStateModifier" ->
            {BuilderCallOf("effect", NoType, e) : e \in {"colorloop", "none"}}
      [] OTHER ->
            {BuilderCallOf("effect", NoType, e) : e \in {"colorloop", "none"}}
            \cup {BuilderCallOf("alert", NoType, a) : a \in {"select", "lselect", "none"}}
            \cup (IF k = "group::StateModifier"
                  THEN {BuilderCallOf("scene", NoType, "1")} ELSE {})

NumCalls(k) ==
    CASE k = "scene::AppData" -> {BuilderCallOf("version", NoType, v) : v \in {0 - 128, 0, 1}}
      [] k \in LightStateKinds ->
            {BuilderCallOf("transition_time", NoType, 4)}
            \cup {BuilderCallOf(m, t, v) :
                    m \in {"brightness", "saturation"}, t \in TypesOf(k, ModifierTypes),
                    v \in U8Values}
            \cup {BuilderCallOf(m, t, v) :
                    m \in {"hue", "color_temperature"}, t \in TypesOf(k, ModifierTypes),
                    v \in U16Values}
      [] OTHER -> {}

PairCalls(k) ==
    IF k \in LightStateKinds
    THEN {BuilderCallOf("color_space_coordinates", t, v) :
            t \in TypesOf(k, CoordinateModifierTypes), v \in F32Pairs}
    ELSE {}

ColorCalls(k) ==
    IF k = "light::StateModifier"
    THEN {BuilderCallOf("color", NoType, c) : c \in BuilderColors}
    ELSE {}

ListCalls(k) ==
    IF k \in {"scene::Modifier", "group::AttributeModifier"}
    THEN {BuilderCallOf("lights", NoType, <<"1">>)}
    ELSE {}

LightStateCalls(k) ==
    IF k = "scene::Modifier"
    THEN {BuilderCallOf("light_state", id, m) : id \in {"1", "2"}, m \in SceneLightStates}
    ELSE {}

(* the method c names, applied to self *)
Chain(self, c) ==
    CASE c.modifier_type = NoType /\ c.method # "color" ->
            set_field(self, c.method, c.value)
      [] c.method = "color" -> StateModifier_color(self, c.value)
      [] c.method = "light_state" -> light_state(self, c.modifier_type, c.value)
      [] c.method = "brightness" -> brightness(self, c.modifier_type, c.value)
      [] c.method = "hue" -> hue(self, c.modifier_type, c.value)
      [] c.method = "saturation" -> saturation(self, c.modifier_type, c.value)
      [] c.method = "color_temperature" ->
            color_temperature(self, c.modifier_type, c.value)
      [] c.method = "color_space_coordinates" ->
            color_space_coordinates(self, c.modifier_type, c.value)

BuilderSetFields(m) == {f \in DOMAIN m : IsSome(m[f])}

NoBuilderCall == BuilderCallOf("none", NoType, <<>>)

BuilderInit ==
    /\ builder_kind = "none"
    /\ builder = <<>>
    /\ builder_call = NoBuilderCall
    /\ builder_payload = None

(* Modifier::new() *)
NewBuilder ==
    /\ builder_kind = "none"
    /\ \E k \in BuilderKinds :
        /\ builder_kind' = k
        /\ builder' = Modifier_new(k)
        /\ builder_call' = NoBuilderCall
        /\ builder_payload' = None

(* self.method(value): the chain goes on with what the method returns *)
Chained(c) ==
    /\ Cardinality(BuilderSetFields(Chain(builder, c))) <= MaxBuilderFields
    /\ builder' = Chain(builder, c)
    /\ builder_call' = c
    /\ UNCHANGED <<builder_kind, builder_payload>>

(* one more method call in the chain *)
BuilderCall ==
    /\ builder_kind # "none"
    /\ builder_payload = None
    /\ \/ \E c \in BoolCalls(builder_kind) : Chained(c)
       \/ \E c \in StrCalls(builder_kind) : Chained(c)
       \/ \E c \in NumCalls(builder_kind) : Chained(c)
       \/ \E c \in PairCalls(builder_kind) : Chained(c)
       \/ \E c \in ColorCalls(builder_kind) : Chained(c)
       \/ \E c \in ListCalls(builder_kind) : Chained(c)
       \/ \E c \in LightStateCalls(builder_kind) : Chained(c)

(* the modifier is serialized for the request body *)
BuilderSerialize ==
    /\ builder_kind # "none"
    /\ builder_payload = None
    /\ builder_payload' = Some(builder_to_value(builder_kind, builder))
    /\ UNCHANGED <<builder_kind, builder, builder_call>>

(* the modifier is dropped *)
BuilderDrop ==
    /\ builder_payload # None
    /\ builder_kind' = "none"
    /\ builder' = <<>>
    /\ builder_call' = NoBuilderCall
    /\ builder_payload' = None

BuilderNext == NewBuilder \/ BuilderCall \/ BuilderSerialize \/ BuilderDrop

-----------------------------------------------------------------------------
(* the state machine of the calls: every call is one request, one reply *)

NoCall == "none"
NoReply == [t |-> "none", v |-> <<>>]
NoResult == [ok |-> FALSE, val |-> <<>>, err |-> <<>>]

RespInit ==
    /\ call = NoCall
    /\ args = <<>>
    /\ raw = NoReply
    /\ result = NoResult
    /\ requests = <<>>

ModifierExecute ==
    /\ call = NoCall
    /\ \E r \in Replies :
        /\ call' = "Modifier::execute"
        /\ args' = <<>>
        /\ raw' = r
        /\ result' = ModifierExecuteResult(r)
        /\ requests' = send("Put", NoBody)

SetLightState ==
    /\ call = NoCall
    /\ \E r \in Replies :
        /\ call' = "Bridge::set_light_state"
        /\ args' = <<>>
        /\ raw' = r
        /\ result' = set_light_state(r)
        /\ requests' = send("Put", NoBody)

CreatorExecute ==
    /\ call = NoCall
    /\ \E r \in Replies :
        /\ call' = "Creator::execute"
        /\ args' = <<>>
        /\ raw' = r
        /\ result' = CreatorExecuteResult(r)
        /\ requests' = send("Post", NoBody)

CreateGroup ==
    /\ call = NoCall
    /\ \E r \in Replies :
        /\ call' = "Bridge::create_group"
        /\ args' = <<>>
        /\ raw' = r
        /\ result' = create_group(r)
        /\ requests' = send("Post", NoBody)

ScannerExecute ==
    /\ call = NoCall
    /\ \E r \in Replies :
        /\ call' = "Scanner::execute"
        /\ args' = <<>>
        /\ raw' = r
        /\ result' = ScannerExecuteResult(r)
        /\ requests' = send("Post", NoBody)

SearchNewLights ==
    /\ call = NoCall
    /\ \E r \in Replies :
        /\ call' = "Bridge::search_new_lights"
        /\ args' = <<>>
        /\ raw' = r
        /\ result' = search_new_lights(r)
        /\ requests' = send("Post", NoBody)

DeleteLight ==
    /\ call = NoCall
    /\ \E r \in Replies :
        /\ call' = "Bridge::delete_light"
        /\ args' = <<>>
        /\ raw' = r
        /\ result' = delete_light(r)
        /\ requests' = send("Delete", NoBody)

GetLight ==
    /\ call = NoCall
    /\ \E id \in LightIds, r \in GetReplies :
        /\ call' = "Bridge::get_light"
        /\ args' = <<id>>
        /\ raw' = r
        /\ result' = get_light(id, r)
        /\ requests' = send("Get", NoBody)

GetAllLights ==
    /\ call = NoCall
    /\ \E r \in GetReplies :
        /\ call' = "Bridge::get_all_lights"
        /\ args' = <<>>
        /\ raw' = r
        /\ result' = get_all_lights(r)
        /\ requests' = send("Get", NoBody)

RegisterUser ==
    /\ call = NoCall
    /\ \E devicetype \in Devicetypes, r \in RegisterReplies :
        /\ call' = "register_user"
        /\ args' = <<devicetype, FALSE>>
        /\ raw' = r
        /\ result' = register_user(r)
        /\ requests' = send("Post", register_user_body(devicetype))

RegisterUserWithClientkey ==
    /\ call = NoCall
    /\ \E devicetype \in Devicetypes, r \in RegisterReplies :
        /\ call' = "register_user_with_clientkey"
        /\ args' = <<devicetype, TRUE>>
        /\ raw' = r
        /\ result' = register_user_with_clientkey(r)
        /\ requests' = send("Post", register_user_with_clientkey_body(devicetype))

BridgeRegisterUser ==
    /\ call = NoCall
    /\ \E devicetype \in Devicetypes, generate_clientkey \in BOOLEAN, r \in RegisterReplies :
        /\ call' = "bridge::register_user"
        /\ args' = <<devicetype, generate_clientkey>>
        /\ raw' = r
        /\ result' = bridge_register_user(r)
        /\ requests' = send("Post", bridge_register_user_body(devicetype, generate_clientkey))

(* the call has returned and its result is dropped: nothing of a call   *)
(* outlives it                                                           *)
Return ==
    /\ call # NoCall
    /\ call' = NoCall
    /\ args' = <<>>
    /\ raw' = NoReply
    /\ result' = NoResult
    /\ requests' = <<>>

RespNext ==
    \/ ModifierExecute
    \/ SetLightState
    \/ CreatorExecute
    \/ CreateGroup
    \/ ScannerExecute
    \/ SearchNewLights
    \/ DeleteLight
    \/ GetLight
    \/ GetAllLights
    \/ RegisterUser
    \/ RegisterUserWithClientkey
    \/ BridgeRegisterUser
    \/ Return

Init == RespInit /\ SerInit /\ ColorInit /\ BuilderInit

Next == RespNext /\ UNCHANGED <<serVars, colorVars, builderVars>>

Spec == Init /\ [][Next]_vars

(* the encoding side on its own *)
SerStep == SerNext /\ UNCHANGED <<respVars, colorVars, builderVars>>

SerSpec == Init /\ [][SerStep]_vars

(* the colour side on its own *)
ColorStep == ColorNext /\ UNCHANGED <<respVars, serVars, builderVars>>

ColorSpec == Init /\ [][ColorStep]_vars

(* the chained modifiers on their own *)
BuilderStep == BuilderNext /\ UNCHANGED <<respVars, serVars, colorVars>>

BuilderSpec == Init /\ [][BuilderStep]_vars

-----------------------------------------------------------------------------
(* Shapes of wire elements, stated on the wire value alone *)

ModifierCalls == {"Modifier::execute", "Bridge::set_light_state"}
CreatorCalls == {"Creator::execute", "Bridge::create_group"}
ScannerCalls == {"Scanner::execute", "Bridge::search_new_lights", "Bridge::delete_light"}
GetCalls == {"Bridge::get_light", "Bridge::get_all_lights"}
RegisterCalls == {"register_user", "register_user_with_clientkey", "bridge::register_user"}

(* the calls whose reply is read as Vec<Response<T>> and nothing else *)
SequenceCalls == ModifierCalls \cup CreatorCalls \cup ScannerCalls \cup RegisterCalls

IsEnvelope(e, k) == e.t = "obj" /\ Len(e.v) = 1 /\ e.v[1][1] = k
Inner(e) == e.v[1][2]

(* {"success": {A: V}} *)
IsModifiedSuccess(e) ==
    IsEnvelope(e, "success") /\ Inner(e).t = "obj" /\ Len(Inner(e).v) = 1

(* {"error": {"type": c, "address": a, "description": d}}, c documented *)
IsDocumentedError(e) ==
    /\ IsEnvelope(e, "error")
    /\ Inner(e).t = "obj"
    /\ Keys(Inner(e)) = {"type", "address", "description"}
    /\ Get(Inner(e), "type") \in {JNum(1), JNum(101)}
    /\ Get(Inner(e), "address").t = "str"
    /\ Get(Inner(e), "description").t = "str"

DecodedAll ==
    result.ok \/ (result.err # <<>> /\ result.err[1].kind \in {"Response", "GetCreatedId", "GetUsername"})

-----------------------------------------------------------------------------
(* C1: a mutation call whose reply is an array of well-formed success and *)
(* error elements returns Ok with one entry per wire element, in wire     *)
(* order, every error element kept as Response::Error at its position; a  *)
(* mutation call never returns a bridge-reported error as its own error:   *)
(* it fails only with a transport or a decode error.                       *)
C1_MixedSequenceKept ==
    call \in ModifierCalls =>
        /\ (raw.t = "arr" /\ \A i \in 1..Len(raw.v) :
                IsModifiedSuccess(raw.v[i]) \/ IsDocumentedError(raw.v[i]))
           => result.ok
        /\ result.ok =>
            /\ raw.t = "arr"
            /\ Len(result.val) = Len(raw.v)
            /\ \A i \in 1..Len(raw.v) :
                /\ IsEnvelope(raw.v[i], "error") =>
                    /\ result.val[i].tag = "Error"
                    /\ Inner(raw.v[i]).t = "obj" =>
                        /\ JStr(result.val[i].v.address) = Get(Inner(raw.v[i]), "address")
                        /\ JStr(result.val[i].v.description) = Get(Inner(raw.v[i]), "description")
                /\ IsEnvelope(raw.v[i], "success") =>
                    result.val[i].tag = "Success"
        /\ ~result.ok => result.err[1].kind \in {"ParseHttpResponse", "ParseJson"}

C1_Witness ==
    /\ call = "Modifier::execute"
    /\ result.ok
    /\ Len(result.val) = 2
    /\ result.val[1].tag = "Error"
    /\ result.val[2].tag = "Success"

(* C5: whenever a reply was decoded as a sequence of Response<T>, each of *)
(* its elements is an object with exactly one key, and that key is        *)
(* "success" or "error"; the variant decoded is the one the key names.    *)
C5_SingleKeyEnvelope ==
    (call \in SequenceCalls /\ DecodedAll) =>
        /\ raw.t = "arr"
        /\ \A i \in 1..Len(raw.v) :
            IsEnvelope(raw.v[i], "success") \/ IsEnvelope(raw.v[i], "error")
        /\ (call \in ModifierCalls) =>
            \A i \in 1..Len(raw.v) :
                result.val[i].tag = "Success" <=> IsEnvelope(raw.v[i], "success")

C5_Witness ==
    /\ call = "Bridge::set_light_state"
    /\ raw.t = "arr"
    /\ Len(raw.v) = 2
    /\ IsModifiedSuccess(raw.v[1])
    /\ raw.v[2].t = "obj"
    /\ Len(raw.v[2].v) = 2
    /\ result = Err(ParseJson)

(* C6: an error element with any numeric type code decodes: a documented   *)
(* code to its own variant, every other code to UnkownError, address and   *)
(* description kept.  (Stated for a reply of one error element.)           *)
C6_UnknownCodeDecodes ==
    (/\ call \in ModifierCalls
     /\ raw.t = "arr"
     /\ Len(raw.v) = 1
     /\ \E c \in WireCodes : raw.v[1] = JObj(<< <<"error", ErrorObject(c)>> >>))
    => /\ result.ok
       /\ result.val[1].tag = "Error"
       /\ result.val[1].v.address = "/lights/1"
       /\ result.val[1].v.description = "link button not pressed"
       /\ result.val[1].v.kind =
            (CASE Get(Inner(raw.v[1]), "type") = JNum(1) -> "UnauthorizedUser"
               [] Get(Inner(raw.v[1]), "type") = JNum(101) -> "LinkButtonNotPressed"
               [] OTHER -> "UnkownError")

(* C7: a reply all of whose elements are {"success": {A: V}} decodes to    *)
(* Success(Modified{address: A, value: V}) element by element.             *)
C7_ModifiedUnwrapped ==
    (/\ call \in ModifierCalls
     /\ raw.t = "arr"
     /\ \A i \in 1..Len(raw.v) : IsModifiedSuccess(raw.v[i]))
    => /\ result.ok
       /\ \A i \in 1..Len(raw.v) :
            result.val[i] = Success([address |-> Inner(raw.v[i]).v[1][1],
                                     value |-> Inner(raw.v[i]).v[1][2]])

C7_Witness ==
    /\ call = "Modifier::execute"
    /\ raw = JArr(<< JObj(<< <<"success",
                JObj(<< <<"/lights/1/state/bri", JNum(200)>> >>)>> >>) >>)
    /\ result.ok

(* C8: a reply holding a success element whose inner object has no key or *)
(* has two or more keys is a decode error.                                 *)
C8_InnerSingleKeyOnly ==
    (/\ call \in ModifierCalls
     /\ raw.t = "arr"
     /\ \E i \in 1..Len(raw.v) :
            /\ IsEnvelope(raw.v[i], "success")
            /\ Inner(raw.v[i]).t = "obj"
            /\ Len(Inner(raw.v[i]).v) # 1)
    => ~result.ok

(* {"success": {k: "s", ...}}: an object of string values *)
IsCreatedSuccess(e) ==
    /\ IsEnvelope(e, "success")
    /\ Inner(e).t = "obj"
    /\ \A i \in 1..Len(Inner(e).v) : Inner(e).v[i][2].t = "str"

Last(s) == s[Len(s)]

(* C9: a creation call takes its result from the last element of the      *)
(* reply: a success holding an id gives that id; an empty reply or a       *)
(* success without an id key gives Error::GetCreatedId.  (Stated for       *)
(* replies whose elements are successes over string-valued objects.)       *)
C9_CreatedIdFromLast ==
    (/\ call \in CreatorCalls
     /\ raw.t = "arr"
     /\ \A i \in 1..Len(raw.v) : IsCreatedSuccess(raw.v[i]))
    => /\ Len(raw.v) = 0 => result = Err(GetCreatedId)
       /\ (Len(raw.v) > 0 /\ HasKey(Inner(Last(raw.v)), "id")) =>
            result = Ok(Get(Inner(Last(raw.v)), "id").v[1])
       /\ (Len(raw.v) > 0 /\ ~HasKey(Inner(Last(raw.v)), "id")) =>
            result = Err(GetCreatedId)

(* C10: a creation call whose reply holds an error entry at any position   *)
(* returns an error of the reply as Error::Response and no id.  (Stated    *)
(* for replies of documented errors and successes holding an id.)          *)
C10_AnyErrorPropagated ==
    (/\ call \in CreatorCalls
     /\ raw.t = "arr"
     /\ \A i \in 1..Len(raw.v) :
            \/ IsDocumentedError(raw.v[i])
            \/ (IsCreatedSuccess(raw.v[i]) /\ Keys(Inner(raw.v[i])) = {"id"})
     /\ \E i \in 1..Len(raw.v) : IsDocumentedError(raw.v[i]))
    => /\ ~result.ok
       /\ result.err[1].kind = "Response"

-----------------------------------------------------------------------------
(* The wire keys of the payload fields, as the bridge API names them *)

AdjustAttributes ==
    { <<"brightness", "bri", "bri_inc">>, <<"hue", "hue", "hue_inc">>,
      <<"saturation", "sat", "sat_inc">>,
      <<"color_space_coordinates", "xy", "xy_inc">>,
      <<"color_temperature", "ct", "ct_inc">> }

WireKeys(k, f) ==
    IF Adjusted(k) /\ \E a \in AdjustAttributes : a[1] = f
    THEN LET a == CHOOSE b \in AdjustAttributes : b[1] = f IN {a[2], a[3]}
    ELSE CASE f = "brightness" -> {"bri"}
           [] f = "saturation" -> {"sat"}
           [] f = "color_space_coordinates" -> {"xy"}
           [] f = "color_temperature" -> {"ct"}
           [] f = "transition_time" -> {"transitiontime"}
           [] f = "device_ids" -> {"deviceid"}
           [] f = "kind" -> {"type"}
           [] OTHER -> {f}

Body == Unwrap(payload).obj

(* the JSON number or pair of numbers of an adjusted value, negated or not *)
Signed(a, x, sign) ==
    IF a[1] = "color_space_coordinates"
    THEN JArr(<<JNum(sign * x[1]), JNum(sign * x[2])>>)
    ELSE JNum(sign * x)

(* C2: in the payload of a light or group StateModifier, no attribute has *)
(* both its plain key and its _inc key, and an attribute has one of the   *)
(* two exactly when it is set.                                             *)
C2_PlainXorInc ==
    (Adjusted(kind) /\ IsSome(payload)) =>
        \A a \in AdjustAttributes :
            /\ ~(HasKey(Body, a[2]) /\ HasKey(Body, a[3]))
            /\ IsSome(modifier[a[1]]) <=> (HasKey(Body, a[2]) \/ HasKey(Body, a[3]))

C2_Witness ==
    /\ kind = "group::StateModifier"
    /\ IsSome(payload)
    /\ HasKey(Body, "bri_inc")
    /\ HasKey(Body, "hue")

(* C3: Override(v) emits the plain key alone with v, Increment(v) the     *)
(* _inc key alone with +v, Decrement(v) the _inc key alone with -v; for a  *)
(* pair both components are negated.                                       *)
C3_AdjustEncoding ==
    (Adjusted(kind) /\ IsSome(payload)) =>
        \A a \in AdjustAttributes :
            IsSome(modifier[a[1]]) =>
                LET adj == Unwrap(modifier[a[1]]) IN
                CASE adj.variant = "Override" ->
                        /\ HasKey(Body, a[2]) /\ ~HasKey(Body, a[3])
                        /\ Get(Body, a[2]) = Signed(a, adj.v, 1)
                  [] adj.variant = "Increment" ->
                        /\ HasKey(Body, a[3]) /\ ~HasKey(Body, a[2])
                        /\ Get(Body, a[3]) = Signed(a, adj.v, 1)
                  [] adj.variant = "Decrement" ->
                        /\ HasKey(Body, a[3]) /\ ~HasKey(Body, a[2])
                        /\ Get(Body, a[3]) = Signed(a, adj.v, 0 - 1)

C3_Witness ==
    /\ kind = "light::StateModifier"
    /\ IsSome(payload)
    /\ modifier.color_space_coordinates = Some(Decrement(<<1, 2>>))
    /\ modifier.saturation = Some(Decrement(U8Max))
    /\ HasKey(Body, "xy_inc")

(* C4: an unset field contributes no key to the payload, no value is      *)
(* null, the payload has as many keys as the value has set fields (plus    *)
(* the fields that are not optional), and a value fresh from new() that    *)
(* has optional fields only serializes to {}.                              *)
RequiredFields(k) == IF k = "group::Creator" THEN {"name", "lights"} ELSE {}

-----------------------------------------------------------------------------
ErrorPositions == {i \in 1..Len(raw.v) : IsEnvelope(raw.v[i], "error")}
FirstErrorPosition == CHOOSE i \in ErrorPositions : \A j \in ErrorPositions : i <= j

(* C11: a scan or delete call whose reply decoded as a response sequence  *)
(* returns Ok(()) exactly when no element of the reply is an error         *)
(* element (the empty reply included); otherwise it returns the first      *)
(* error element in wire order, whatever surrounds it.                     *)
C11_FirstErrorOrUnit ==
    (call \in ScannerCalls /\ DecodedAll) =>
        /\ raw.t = "arr"
        /\ result.ok <=> ErrorPositions = {}
        /\ result.ok => result.val = Unit
        /\ ErrorPositions # {} =>
            result = Err(ErrorResponse(DeError(Inner(raw.v[FirstErrorPosition])).val))

C11_Witness ==
    /\ call = "Scanner::execute"
    /\ raw.t = "arr"
    /\ Len(raw.v) = 2
    /\ raw.v[1] = JObj(<< <<"error", ErrorObject(1)>> >>)
    /\ raw.v[2] = JObj(<< <<"error", ErrorObject(101)>> >>)
    /\ ~result.ok
    /\ result.err[1].error[1].kind = "UnauthorizedUser"

(* C12: a read call whose reply reads as a sequence of success / error    *)
(* envelopes holding at least one error element returns the first error    *)
(* element of the sequence as its error.                                   *)
C12_ReadReturnsFirstError ==
    (/\ call \in GetCalls
     /\ raw.t = "arr"
     /\ DeVecResponse("JsonValue", raw).ok
     /\ ErrorPositions # {})
    => result = Err(ErrorResponse(DeError(Inner(raw.v[FirstErrorPosition])).val))

(* C13: a registration whose reply decoded as a response sequence is      *)
(* decided by the last element of the reply alone: a success element       *)
(* gives its username (and its clientkey when a key was asked for), an     *)
(* error element gives Error::Response with the kind of its code (101 is   *)
(* LinkButtonNotPressed), its address and its description, and the empty   *)
(* reply gives Error::GetUsername.                                         *)
WireKind(c) == (CHOOSE p \in ErrorKindTable : JNum(p[1]) = c)[2]

C13_RegisterLastEntry ==
    (call \in RegisterCalls /\ DecodedAll) =>
        /\ raw.t = "arr"
        /\ Len(raw.v) = 0 => result = Err(GetUsername)
        /\ Len(raw.v) > 0 =>
            LET last == raw.v[Len(raw.v)] IN
            /\ IsEnvelope(last, "error") \/ IsEnvelope(last, "success")
            /\ IsEnvelope(last, "error") =>
                result = Err(ErrorResponse(
                    [kind |-> WireKind(Get(Inner(last), "type")),
                     address |-> Get(Inner(last), "address").v[1],
                     description |-> Get(Inner(last), "description").v[1]]))
            /\ IsEnvelope(last, "success") =>
                /\ result.ok
                /\ JStr(CASE call = "register_user" -> result.val
                          [] call = "register_user_with_clientkey" -> result.val[1]
                          [] call = "bridge::register_user" -> result.val.name)
                     = Get(Inner(last), "username")
                /\ (args[2] /\ HasKey(Inner(last), "clientkey")
                        /\ Get(Inner(last), "clientkey").t = "str") =>
                    JStr(CASE call = "register_user_with_clientkey" -> result.val[2]
                           [] call = "bridge::register_user" -> Unwrap(result.val.clientkey))
                      = Get(Inner(last), "clientkey")

C13_Witness ==
    /\ call = "bridge::register_user"
    /\ args[2]
    /\ raw.t = "arr"
    /\ Len(raw.v) = 2
    /\ IsEnvelope(raw.v[1], "error")
    /\ result = Ok([name |-> "abc", clientkey |-> Some("0123456789abcdef0123456789abcdef")])

-----------------------------------------------------------------------------
(* Reading a request body as JSON text (RFC 8259), for the flat objects   *)
(* with string and true values that a registration sends.  A reading is   *)
(* [ok, val, next]: next is the position after what was read.             *)

NoReading == [ok |-> FALSE, val |-> <<>>, next |-> 0]
Reading(x, n) == [ok |-> TRUE, val |-> x, next |-> n]

RECURSIVE SkipWs(_, _)
SkipWs(s, i) == IF i <= Len(s) /\ s[i] = " " THEN SkipWs(s, i + 1) ELSE i

(* the characters that may follow a backslash, and what they stand for *)
Escapes ==
    { <<"\"", "\"">>, <<"\\", "\\">>, <<"/", "/">>, <<"n", "\n">>,
      <<"t", "\t">>, <<"r", "\r">>, <<"f", "\f">> }

RECURSIVE ReadStringChars(_, _, _)
ReadStringChars(s, i, acc) ==
    IF i > Len(s) THEN NoReading
    ELSE IF s[i] = "\"" THEN Reading(acc, i + 1)
    ELSE IF s[i] = "\\"
         THEN IF i + 1 <= Len(s) /\ \E e \in Escapes : e[1] = s[i + 1]
              THEN ReadStringChars(s, i + 2,
                        Append(acc, (CHOOSE e \in Escapes : e[1] = s[i + 1])[2]))
              ELSE NoReading
    ELSE ReadStringChars(s, i + 1, Append(acc, s[i]))

ReadString(s, i) ==
    IF i <= Len(s) /\ s[i] = "\"" THEN ReadStringChars(s, i + 1, <<>>) ELSE NoReading

ReadValue(s, i) ==
    IF i <= Len(s) /\ s[i] = "\""
    THEN LET x == ReadString(s, i) IN
         IF x.ok THEN Reading(JStr(x.val), x.next) ELSE NoReading
    ELSE IF i + 3 <= Len(s) /\ SubSeq(s, i, i + 3) = <<"t", "r", "u", "e">>
         THEN Reading(JBool(TRUE), i + 4)
    ELSE NoReading

(* the members of an object from position i on, up to the closing brace *)
RECURSIVE ReadMembers(_, _, _)
ReadMembers(s, i, acc) ==
    LET key == ReadString(s, SkipWs(s, i)) IN
    IF ~key.ok THEN NoReading
    ELSE LET colon == SkipWs(s, key.next) IN
         IF ~(colon <= Len(s) /\ s[colon] = ":") THEN NoReading
         ELSE LET value == ReadValue(s, SkipWs(s, colon + 1)) IN
              IF ~value.ok THEN NoReading
              ELSE LET end == SkipWs(s, value.next)
                       entries == Append(acc, <<key.val, value.val>>)
                   IN IF end > Len(s) THEN NoReading
                      ELSE IF s[end] = "," THEN ReadMembers(s, end + 1, entries)
                      ELSE IF s[end] = "}" THEN Reading(entries, end + 1)
                      ELSE NoReading

(* the whole text as one object: its entries in text order *)
ReadObject(s) ==
    LET open == SkipWs(s, 1) IN
    IF ~(open <= Len(s) /\ s[open] = "{") THEN NoReading
    ELSE LET first == SkipWs(s, open + 1)
             members == IF first <= Len(s) /\ s[first] = "}"
                        THEN Reading(<<>>, first + 1)
                        ELSE ReadMembers(s, first, <<>>)
         IN IF members.ok /\ SkipWs(s, members.next) = Len(s) + 1
            THEN members ELSE NoReading

DevicetypeKey == <<"d", "e", "v", "i", "c", "e", "t", "y", "p", "e">>
GenerateclientkeyKey ==
    <<"g", "e", "n", "e", "r", "a", "t", "e", "c", "l", "i", "e", "n", "t",
      "k", "e", "y">>

SentBody == requests[1].body
SentObject == JObj(ReadObject(SentBody).val)

(* C14: the body of a registration request is a JSON object whose         *)
(* devicetype is the string the caller passed, that has generateclientkey  *)
(* (with the value true) exactly when a key was asked for, and that has no *)
(* other key.                                                              *)
C14_RegistrationBody ==
    call \in RegisterCalls =>
        /\ ReadObject(SentBody).ok
        /\ Keys(SentObject) =
             {DevicetypeKey} \cup (IF args[2] THEN {GenerateclientkeyKey} ELSE {})
        /\ Len(SentObject.v) = Cardinality(Keys(SentObject))
        /\ Get(SentObject, DevicetypeKey) = JStr(args[1])
        /\ args[2] => Get(SentObject, GenerateclientkeyKey) = JBool(TRUE)

(* the same for the device identifiers that hold no quote and no backslash *)
PlainDevicetype(d) == \A i \in 1..Len(d) : d[i] \notin {"\"", "\\"}

RegistrationBodyOfPlainDevicetype ==
    (call \in RegisterCalls /\ PlainDevicetype(args[1])) =>
        /\ ReadObject(SentBody).ok
        /\ Keys(SentObject) =
             {DevicetypeKey} \cup (IF args[2] THEN {GenerateclientkeyKey} ELSE {})
        /\ Len(SentObject.v) = Cardinality(Keys(SentObject))
        /\ Get(SentObject, DevicetypeKey) = JStr(args[1])
        /\ args[2] => Get(SentObject, GenerateclientkeyKey) = JBool(TRUE)

-----------------------------------------------------------------------------
(* C15: a call sends one request and no more, whatever its reply: once    *)
(* the reply has been handled the only step left is the return (no second  *)
(* request, no retry, no wait), and between two calls nothing of the       *)
(* earlier one is left.                                                    *)
C15_SingleExchange ==
    /\ [](call = NoCall =>
            (args = <<>> /\ raw = NoReply /\ result = NoResult /\ requests = <<>>))
    /\ [][/\ Len(requests') <= 1
          /\ call # NoCall => (call' = NoCall /\ requests' = <<>>)
          /\ (call = NoCall /\ call' # NoCall) =>
                (Len(requests') = 1 /\ raw' # NoReply /\ result' # NoResult)]_vars

C15_Witness ==
    /\ call = "register_user"
    /\ ~result.ok
    /\ result.err[1].kind = "Response"
    /\ result.err[1].error[1].kind = "LinkButtonNotPressed"
    /\ Len(requests) = 1

-----------------------------------------------------------------------------
(* Hex text, read as the notation defines it *)
UpperDigits == <<"0", "1", "2", "3", "4", "5", "6", "7", "8", "9", "A", "B", "C", "D", "E", "F">>
LowerDigits == <<"0", "1", "2", "3", "4", "5", "6", "7", "8", "9", "a", "b", "c", "d", "e", "f">>
IsHexDigit(c) == \E i \in 1..16 : UpperDigits[i] = c \/ LowerDigits[i] = c
HexValue(c) == (CHOOSE i \in 1..16 : UpperDigits[i] = c \/ LowerDigits[i] = c) - 1
ByteValue(hi, lo) == HexValue(hi) * 16 + HexValue(lo)

(* # followed by n hex digits *)
IsHexText(s, n) ==
    Len(s) = n + 1 /\ s[1] = "#" /\ \A i \in 2..(n + 1) : IsHexDigit(s[i])

HexText == color_args[1]

(* C16: from_space_coordinates(x, y) gives the coordinates (x, y) as they *)
(* were passed, in range or not, and no brightness; from_rgb and every     *)
(* from_hex that returns Ok give a brightness.                             *)
C16_BrightnessByConstructor ==
    /\ color_call = "Color::from_space_coordinates" =>
        /\ color.space_coordinates = <<color_args[1], color_args[2]>>
        /\ color.brightness = None
    /\ color_call = "Color::from_rgb" => IsSome(color.brightness)
    /\ (color_call = "Color::from_hex" /\ color.ok) => IsSome(color.val.brightness)

C16_Witness ==
    /\ color_call = "Color::from_space_coordinates"
    /\ color_args = <<2 * Fixed, 0 - Fixed>>
    /\ color = [space_coordinates |-> <<2 * Fixed, 0 - Fixed>>, brightness |-> None]

(* C17: from_hex of # and the two-digit hex of R, G and B, in either      *)
(* letter case, is Ok(from_rgb(R, G, B)).                                  *)
C17_HexLongIsRgb ==
    (color_call = "Color::from_hex" /\ IsHexText(HexText, 6)) =>
        color = Ok(from_rgb(ByteValue(HexText[2], HexText[3]),
                            ByteValue(HexText[4], HexText[5]),
                            ByteValue(HexText[6], HexText[7])))

C17_Witness ==
    /\ color_call = "Color::from_hex"
    /\ HexText = <<"#", "F", "f", "0", "0", "a", "1">>
    /\ color = Ok(from_rgb(255, 0, 161))

(* C18: from_hex of #abc is from_hex of #aabbcc, for all hex digits a, b  *)
(* and c in either case: each digit d becomes the byte d * 16 + d, which   *)
(* is a u8, and the bytes go to from_rgb.                                  *)
C18_HexShortIsDoubled ==
    (color_call = "Color::from_hex" /\ IsHexText(HexText, 3)) =>
        /\ \A i \in 2..4 : HexValue(HexText[i]) * 16 + HexValue(HexText[i]) <= U8Max
        /\ color.ok
        /\ color = from_hex(<<"#", HexText[2], HexText[2], HexText[3], HexText[3],
                              HexText[4], HexText[4]>>)
        /\ color = Ok(from_rgb(ByteValue(HexText[2], HexText[2]),
                               ByteValue(HexText[3], HexText[3]),
                               ByteValue(HexText[4], HexText[4])))

C18_Witness ==
    /\ color_call = "Color::from_hex"
    /\ HexText = <<"#", "0", "2", "F">>
    /\ color = Ok(from_rgb(0, 34, 255))

(* C19: a text whose length in bytes is neither 4 nor 7 is rejected with  *)
(* InvalidLenght; a text of 4 or 7 bytes that is rejected with an error is *)
(* rejected with ParseInt, which carries the error of the integer parse;   *)
(* no other error is returned.                                             *)
C19_HexErrorKinds ==
    color_call = "Color::from_hex" =>
        /\ len(HexText) \notin {4, 7} => color = Err(InvalidLenght)
        /\ (len(HexText) \in {4, 7} /\ ~color.ok /\ color # Panicked) =>
            /\ color.err[1].kind = "ParseInt"
            /\ color.err[1].error[1] \in {"InvalidDigit", "Empty", "PosOverflow"}
        /\ (~color.ok /\ color # Panicked) =>
            color.err[1].kind \in {"InvalidLenght", "ParseInt"}

C19_Witness ==
    /\ color_call = "Color::from_hex"
    /\ HexText = <<"#", "z", "z", "z", "z", "z", "z">>
    /\ color = Err(ParseInt("InvalidDigit"))

(* C20: from_hex returns Ok only for # followed by exactly 3 or exactly 6  *)
(* hex digits.                                                             *)
C20_HexOkOnlyForHexText ==
    (color_call = "Color::from_hex" /\ color.ok) =>
        (IsHexText(HexText, 3) \/ IsHexText(HexText, 6))

-----------------------------------------------------------------------------
(* C21: from_hex returns a typed Result for every text and never panics,   *)
(* also for a text of 4 or 7 bytes in which a character outside ASCII lies *)
(* across the boundary of a digit slice.                                   *)
C21_HexNeverPanics ==
    color_call = "Color::from_hex" =>
        /\ color # Panicked
        /\ \/ color.ok
           \/ color.err # <<>> /\ color.err[1].kind \in {"InvalidLenght", "ParseInt"}

-----------------------------------------------------------------------------
(* the body a chained modifier was serialized to *)
BuilderBody == Unwrap(builder_payload).obj

(* the plain key and the _inc key of each attribute that can be adjusted *)
AdjustKeys ==
    {<<"bri", "bri_inc">>, <<"hue", "hue_inc">>, <<"sat", "sat_inc">>,
     <<"xy", "xy_inc">>, <<"ct", "ct_inc">>}

(* C22: whatever methods were chained on a light::StateModifier or a      *)
(* group::StateModifier of the builder API, the serialized payload holds   *)
(* at most one of the plain key and the _inc key of an attribute, never    *)
(* both.                                                                   *)
C22_BuilderPlainXorInc ==
    (builder_kind \in {"light::StateModifier", "group::StateModifier"}
     /\ IsSome(builder_payload)) =>
        \A p \in AdjustKeys : ~(HasKey(BuilderBody, p[1]) /\ HasKey(BuilderBody, p[2]))

-----------------------------------------------------------------------------
(* the pair color_space_coordinates is to emit for a mode and (a, b) *)
PairJson(a, b) == JArr(<<JNum(a), JNum(b)>>)
Directed(mode, v) ==
    CASE mode \in {"Override", "Increment"} -> PairJson(v[1], v[2])
      [] mode = "Decrement" -> PairJson(0 - v[1], 0 - v[2])
      [] mode = "IncrementDecrement" -> PairJson(v[1], 0 - v[2])
      [] mode = "DecrementIncrement" -> PairJson(0 - v[1], v[2])

Directions == {"Increment", "Decrement", "IncrementDecrement", "DecrementIncrement"}

(* the xy_inc a fresh modifier of the kind serializes to after one call *)
XyIncAfter(k, mode, v) ==
    Get(builder_to_value(k, color_space_coordinates(Modifier_new(k), mode, v)).obj,
        "xy_inc")

(* C23: in the builder API color_space_coordinates(mode, (a, b)) emits    *)
(* xy = [a, b] for Override and xy_inc = [a, b], [-a, -b], [a, -b],        *)
(* [-a, b] for Increment, Decrement, IncrementDecrement and                *)
(* DecrementIncrement; for non-zero a and b the four directions give       *)
(* pairwise distinct payloads.                                             *)
C23_CoordinateDirections ==
    (Adjustable(builder_kind) /\ IsSome(builder_payload)
     /\ builder_call.method = "color_space_coordinates") =>
        LET mode == builder_call.modifier_type
            v == builder_call.value
            key == IF mode = "Override" THEN "xy" ELSE "xy_inc"
        IN /\ HasKey(BuilderBody, key)
           /\ Get(BuilderBody, key) = Directed(mode, v)
           /\ (mode # "Override" /\ v[1] # 0 /\ v[2] # 0) =>
                \A other \in Directions \ {mode} :
                    XyIncAfter(builder_kind, other, v) # Get(BuilderBody, key)

C23_Witness ==
    /\ builder_kind = "group::StateModifier"
    /\ IsSome(builder_payload)
    /\ builder_call.method = "color_space_coordinates"
    /\ builder_call.modifier_type = "DecrementIncrement"
    /\ builder_call.value = <<1, 2>>
    /\ Get(BuilderBody, "xy_inc") = PairJson(0 - 1, 2)

-----------------------------------------------------------------------------
(* a modifier all of whose fields but brightness are unset *)
OnlyBrightnessSet(m) == \A f \in DOMAIN m : IsSome(m[f]) => f = "brightness"

(* C24: with_color(c) on a light or group StateModifier sets               *)
(* color_space_coordinates to Override(c's coordinates); when c carries a  *)
(* brightness it replaces any brightness adjustment set before by          *)
(* Override(that brightness), when c carries none the brightness stays as  *)
(* it was; every other field is unchanged.  with_brightness(Increment(1))  *)
(* followed by with_color(from_rgb(0, 0, 0)) serializes to exactly the     *)
(* keys bri = 0 and xy = [0.0, 0.0].                                       *)
C24_WithColorFrame ==
    [][(Adjusted(kind) /\ kind' = kind /\ payload = None /\ payload' = None
        /\ setter'.name = "with_color") =>
          LET c == setter'.value IN
          /\ modifier'.color_space_coordinates = Some(Override(c.space_coordinates))
          /\ modifier'.brightness =
                IF IsSome(c.brightness) THEN Some(Override(Unwrap(c.brightness)))
                ELSE modifier.brightness
          /\ \A f \in (DOMAIN modifier) \ {"color_space_coordinates", "brightness"} :
                modifier'[f] = modifier[f]
          /\ (modifier.brightness = Some(Increment(1)) /\ OnlyBrightnessSet(modifier)
              /\ c = from_rgb(0, 0, 0)) =>
                to_value(kind, modifier').obj =
                    JObj(<< <<"bri", JNum(0)>>, <<"xy", JArr(<<JNum(0), JNum(0)>>)>> >>)
      ]_vars

C24_Witness ==
    /\ kind = "light::StateModifier"
    /\ setter.name = "with_color"
    /\ setter.value = from_rgb(0, 0, 0)
    /\ IsSome(payload)
    /\ Body = JObj(<< <<"bri", JNum(0)>>, <<"xy", JArr(<<JNum(0), JNum(0)>>)>> >>)

-----------------------------------------------------------------------------
(* Y * 255 of the gamma-corrected channels, in units of 1 / (Fixed * 100) *)
Luminance255(red, green, blue) ==
    (Weighted(YCoefficients, gamma_correct(red), gamma_correct(green),
              gamma_correct(blue)) \div 100) * 255

(* round to the nearest integer, then clamp to 0..255 *)
RoundClamp(n) ==
    LET r == (n + (Fixed * 100) \div 2) \div (Fixed * 100)
    IN IF r > U8Max THEN U8Max ELSE IF r < 0 THEN 0 ELSE r

(* C25: from_rgb sets the brightness to round(Y * 255) clamped to 0..255,  *)
(* Y being 0.234327 R' + 0.743075 G' + 0.022598 B' over the                *)
(* gamma-corrected channels; white gives Some(255), black gives Some(0)    *)
(* with the chromaticity (0.0, 0.0).                                       *)
C25_BrightnessRounded ==
    color_call = "Color::from_rgb" =>
        /\ color.brightness =
            Some(RoundClamp(Luminance255(color_args[1], color_args[2], color_args[3])))
        /\ color_args = <<U8Max, U8Max, U8Max>> => color.brightness = Some(U8Max)
        /\ color_args = <<0, 0, 0>> =>
            color.brightness = Some(0) /\ color.space_coordinates = <<0, 0>>

-----------------------------------------------------------------------------
(* the endpoint of a payload type: the collection of a Creator or a       *)
(* Scanner, the resource with the given id of a Modifier                  *)
Endpoint(k, id) ==
    CASE k = "group::Creator" -> "groups"
      [] k = "light::Scanner" -> "lights"
      [] k = "light::AttributeModifier" -> "lights/" \o id
      [] k = "group::StateModifier" -> "groups/" \o id \o "/action"
      [] OTHER -> "lights/" \o id \o "/state"

Creators == {"group::Creator"}
Scanners == {"light::Scanner"}

(* C26: execute sends a Creator with POST to the collection suffix, a     *)
(* Modifier with PUT to the suffix of the id, a Scanner with POST to the  *)
(* collection suffix; Command::from_creator, from_modifier, from_scanner  *)
(* give the address "/api/<username>/<url_suffix>", the methods POST, PUT *)
(* and POST, and as body the serialization of the payload.                *)
C26_VerbsAndAddresses ==
    issued.op # "none" =>
        LET verb == IF kind \in Creators \cup Scanners THEN "Post" ELSE "Put"
            upper == IF verb = "Post" THEN "POST" ELSE "PUT"
            made == IF kind \in Creators THEN "Command::from_creator"
                    ELSE IF kind \in Scanners THEN "Command::from_scanner"
                    ELSE "Command::from_modifier"
        IN /\ IsSome(payload)
           /\ (kind \in Creators \cup Scanners) => issued.id = NoId
           /\ issued.op = "execute" =>
                /\ issued.out.method = verb
                /\ issued.out.url_suffix = Endpoint(kind, issued.id)
                /\ issued.out.body = Some(Body)
           /\ issued.op # "execute" =>
                /\ issued.op = made
                /\ issued.out.address =
                    "/api/" \o issued.username \o "/" \o Endpoint(kind, issued.id)
                /\ issued.out.request_method = upper
                /\ issued.out.body = Body

C26_Witness ==
    /\ kind = "light::StateModifier"
    /\ issued.op = "Command::from_modifier"
    /\ issued.out =
        [address |-> "/api/user/lights/1/state", request_method |-> "PUT",
         body |-> JObj(<< <<"on", JBool(TRUE)>> >>)]

-----------------------------------------------------------------------------
(* the methods that adjust a number, their _inc key and the range of the  *)
(* signed type the increment is held in                                   *)
NumberAdjusters ==
    { [method |-> "brightness", inc |-> "bri_inc", bits |-> 16, max |-> U8Max],
      [method |-> "saturation", inc |-> "sat_inc", bits |-> 16, max |-> U8Max],
      [method |-> "hue", inc |-> "hue_inc", bits |-> 32, max |-> U16Max],
      [method |-> "color_temperature", inc |-> "ct_inc", bits |-> 32, max |-> U16Max] }

InSignedRange(x, bits) ==
    IF bits = 16 THEN 0 - 32768 <= x /\ x <= 32767
    ELSE 0 - 2147483647 <= x /\ x <= 2147483647

(* C27: for every u8 v of brightness or saturation and every u16 v of hue *)
(* or color temperature, Increment(v) and Decrement(v) emit exactly +v    *)
(* and -v as integers, within i16 and i32: no cast and no negation wraps, *)
(* v = 255 and v = 65535 included, and Decrement(0) emits 0.              *)
C27_IncrementsExact ==
    (Adjustable(builder_kind) /\ IsSome(builder_payload)
     /\ builder_call.method \in {a.method : a \in NumberAdjusters}
     /\ builder_call.modifier_type \in {"Increment", "Decrement"}) =>
        LET a == CHOOSE b \in NumberAdjusters : b.method = builder_call.method
            v == builder_call.value
            emitted == Get(BuilderBody, a.inc).v[1]
        IN /\ HasKey(BuilderBody, a.inc)
           /\ emitted = IF builder_call.modifier_type = "Increment" THEN v ELSE 0 - v
           /\ InSignedRange(emitted, a.bits)
           /\ \A u \in {0, 1, 127, 128, a.max - 1, a.max} :
                /\ to_increment(Some(Increment(u)), a.bits) = Some(u)
                /\ to_increment(Some(Decrement(u)), a.bits) = Some(0 - u)

C27_Witness ==
    /\ builder_kind = "light::StateModifier"
    /\ IsSome(builder_payload)
    /\ builder_call.method = "hue"
    /\ builder_call.modifier_type = "Decrement"
    /\ builder_call.value = U16Max
    /\ Get(BuilderBody, "hue_inc") = JNum(0 - U16Max)

-----------------------------------------------------------------------------
(* elements that cannot be decoded, stated on the wire value: a single    *)
(* key that is neither success nor error, an error object that lacks one  *)
(* of its three fields, a success whose value has not the shape the call  *)
(* reads (a scan reads any value)                                         *)
UnknownEnvelope(e) ==
    e.t = "obj" /\ Len(e.v) = 1 /\ e.v[1][1] \notin {"success", "error"}

MalformedError(e) ==
    /\ IsEnvelope(e, "error")
    /\ Inner(e).t = "obj"
    /\ ~({"type", "address", "description"} \subseteq Keys(Inner(e)))

WrongShapeSuccess(e, c) ==
    /\ IsEnvelope(e, "success")
    /\ c \notin ScannerCalls
    /\ \/ Inner(e).t \notin {"obj", "arr"}
       \/ c = "Creator::execute" /\ Inner(e).t = "obj" /\ ~HasKey(Inner(e), "id")

Undecodable(e, c) == UnknownEnvelope(e) \/ MalformedError(e) \/ WrongShapeSuccess(e, c)

(* C28: when one element of the reply to a mutation, creation or scan     *)
(* call does not decode, the call returns Error::ParseJson and nothing    *)
(* else: no element is skipped or defaulted and the elements that did     *)
(* decode are not delivered.                                               *)
C28_DecodeFailureIsFatal ==
    (/\ call \in ModifierCalls \cup CreatorCalls \cup ScannerCalls
     /\ raw.t = "arr"
     /\ \E i \in 1..Len(raw.v) : Undecodable(raw.v[i], call))
    => /\ result = Err(ParseJson)
       /\ result.val = <<>>

C28_Witness ==
    /\ call = "Modifier::execute"
    /\ raw.t = "arr"
    /\ Len(raw.v) = 2
    /\ IsModifiedSuccess(raw.v[1])
    /\ UnknownEnvelope(raw.v[2])
    /\ result = Err(ParseJson)

-----------------------------------------------------------------------------
(* the default value, stated on the fields: none of them is set *)
NothingSet(m) == \A f \in DOMAIN m : m[f] = None

(* C29: for every type of the builder API that implements the trait       *)
(* Modifier, new() is empty; a modifier reached by any chain of calls is   *)
(* empty exactly when it is the default value, which is exactly when it    *)
(* serializes to an object without keys; after at least one call it is     *)
(* not empty.                                                              *)
C29_EmptyIffDefault ==
    builder_kind # "none" =>
        /\ is_empty(builder_kind, Modifier_new(builder_kind))
        /\ builder_call.method = "none" => is_empty(builder_kind, builder)
        /\ is_empty(builder_kind, builder) <=> NothingSet(builder)
        /\ IsSome(builder_payload) =>
            (is_empty(builder_kind, builder) <=> Len(BuilderBody.v) = 0)
        /\ builder_call.method # "none" => ~is_empty(builder_kind, builder)

C29_Witness ==
    /\ builder_kind = "scene::Modifier"
    /\ builder_call.method = "light_state"
    /\ builder.light_states = Some([i \in {"2"} |-> default("scene::LightStateModifier")])
    /\ IsSome(builder_payload)
    /\ BuilderBody = JObj(<< <<"lightstates", JObj(<< <<"2", JObj(<<>>)>> >>)>> >>)
    /\ ~is_empty(builder_kind, builder)

-----------------------------------------------------------------------------
(* C30: whatever the devicetype, a double quote or a backslash in it      *)
(* included, the body of the registration request is well-formed JSON,    *)
(* its devicetype is the caller's string exactly, and it has no key but   *)
(* devicetype and, when a key was asked for, generateclientkey: the       *)
(* caller's string can neither break the body nor add keys to it.         *)
C30_DevicetypeEscaped ==
    call \in RegisterCalls =>
        /\ ReadObject(SentBody).ok
        /\ HasKey(SentObject, DevicetypeKey)
        /\ Get(SentObject, DevicetypeKey) = JStr(args[1])
        /\ Keys(SentObject) \subseteq {DevicetypeKey, GenerateclientkeyKey}
        /\ ~args[2] => ~HasKey(SentObject, GenerateclientkeyKey)

=============================================================================
